---------------------------- MODULE Spec2Model ----------------------------
(*************************************************************************)
(* Model of RedditScraper (src/reddit_scraper.py): the cookie session    *)
(* store (_load_cookies/_save_cookies), the request executor             *)
(* (_make_request) and the loops that call it (scrape_subreddits,        *)
(* _scrape_without_api, _fetch_thread_details, search_keyword_threads).  *)
(* One process, sequential; pc is the position of that process.          *)
(* The parsers, the assembly of a result, the request in detail and      *)
(* RedditToShortsConverter.convert_thread_to_script                      *)
(* (src/reddit_to_shorts.py) have specifications of their own.           *)
(*************************************************************************)
EXTENDS Integers, Sequences, FiniteSets, TLC

VARIABLES
    pc,         \* position of the process
    stopAt,     \* why the process last stopped
    config,     \* self.config (the keys the model needs)
    file,       \* the cookies_file on disk
    fileBefore, \* the file as it was when an interrupted _save_cookies opened it
    lastSaved,  \* the list `cookies` of the latest _save_cookies call
    jar,        \* self.session.cookies
    op,         \* public operation in progress
    total,      \* number of subreddits / keywords of the operation
    idx,        \* 1-based position in that list
    collected,  \* all_threads of the operation is not empty
    threads,    \* the thread records of the parsed listing
    ti,         \* 1-based position in threads (0: none yet)
    fetchKind,  \* which call site called _make_request
    maxRetries, \* parameter max_retries of the running _make_request
    attempt,    \* loop variable of _make_request
    requests,   \* session.get calls issued by the running _make_request
    savedThis,  \* _save_cookies was called in the latest loop iteration
    allNet,     \* session.get has raised in every iteration so far
    wdRetried,  \* an iteration classified wrong_domain was followed by another
    outcome,    \* classification of the latest attempt
    preDelay,   \* sleep performed before the latest session.get
    waits,      \* sleeps performed after the latest session.get
    result,     \* return value of _make_request
    cancelled,  \* the caller has signalled cancellation of the running fetch
    useOld,     \* config["use_old_reddit"] of the parse
    page,       \* the listing elements of the page that is parsed
    stage,      \* "page": a page waits for its parser; "parsed": it is parsed
    records,    \* the list `threads` the parser returned
    allThreads, \* all_threads of scrape_subreddits / search_keyword_threads
    frame,      \* the DataFrame the operation returned
    events,     \* sleeps and detail fetches of the running thread loop, in order
    headers,    \* the local `headers` of the running _make_request
    draws,      \* calls of _get_browser_headers / _get_random_user_agent it made
    sent,       \* the headers given to its latest session.get
    response,   \* what that session.get produced
    shortsConfig, \* self.config of the RedditToShortsConverter
    thread,     \* thread_data given to convert_thread_to_script
    parts,      \* the script components generated for the thread
    script      \* what convert_thread_to_script returned

vars == <<pc, stopAt, config, file, fileBefore, lastSaved, jar, op, total, idx,
          collected, threads, ti, fetchKind, maxRetries, attempt, requests,
          savedThis, allNet, wdRetried, outcome, preDelay, waits, result,
          cancelled, useOld, page, stage, records, allThreads, frame, events,
          headers, draws, sent, response, shortsConfig, thread, parts, script>>

fetchVars == <<fetchKind, maxRetries, attempt, requests, savedThis, allNet,
               wdRetried, outcome, preDelay, waits, result, cancelled>>

opVars == <<op, total, idx, collected, threads, ti>>

diskVars == <<file, fileBefore, lastSaved>>

\* the variables of a parse
parseVars == <<useOld, page, stage, records>>

\* the variables of the assembly of an operation's result
assembleVars == <<allThreads, frame, events>>

\* the request of _make_request in detail
requestVars == <<headers, draws, sent, response>>

\* the variables of the conversion of a thread into a script
convertVars == <<shortsConfig, thread, parts, script>>

\* variables no action of the request executor changes
staticVars == <<config, parseVars, assembleVars, requestVars, convertVars>>

\* the variables of the scraper outside its parsers
scraperVars == <<pc, stopAt, config, file, fileBefore, lastSaved, jar, op, total,
                 idx, collected, threads, ti, fetchVars>>

-----------------------------------------------------------------------------
(* Bounds *)

MaxSubs == 2
MaxThreads == 2
MaxDirectRetries == 4
MaxCfgRetries == 2

-----------------------------------------------------------------------------
(* Cookies and the session file *)

Absent == "<absent>"

\* a cookie record of the session file
Cookie(n, v, d, p) == [name |-> n, value |-> v, domain |-> d, path |-> p]

\* a cookie object of the jar: the four saved attributes and one that is not
JarCookie(n, v, d, p, s) ==
    [name |-> n, value |-> v, domain |-> d, path |-> p, secure |-> s]

\* cookies a response can set
ServerCookies ==
    { JarCookie("session", "v1", ".reddit.com", "/", TRUE),
      JarCookie("session", "v2", ".reddit.com", "/", TRUE) }

GoodRecord == Cookie("session", "v1", ".reddit.com", "/")

BadRecords ==
    { Cookie(Absent, "v1", ".reddit.com", "/"),
      Cookie("session", "v1", Absent, "/") }

\* records a session file found at startup may hold
FileRecords ==
    { GoodRecord, Cookie("loid", "v1", ".reddit.com", "/r") } \cup BadRecords

MissingFile == [kind |-> "missing", recs |-> <<>>]
TornFile(recs) == [kind |-> "torn", recs |-> recs]
JsonFile(recs) == [kind |-> "json", recs |-> recs]

InitFiles ==
    { MissingFile, TornFile(<<>>), JsonFile(<<>>) } \cup
    { JsonFile(<<r>>) : r \in FileRecords } \cup
    { JsonFile(<<GoodRecord, r>>) : r \in BadRecords }

KeyOf(c) == <<c.domain, c.path, c.name>>

HasKey(j, c) == \E i \in 1..Len(j) : KeyOf(j[i]) = KeyOf(c)

\* the jar keeps one cookie per (domain, path, name), in insertion order: a
\* cookie with a key the jar holds replaces the one held
SetCookie(j, c) ==
    IF HasKey(j, c)
    THEN [i \in 1..Len(j) |-> IF KeyOf(j[i]) = KeyOf(c) THEN c ELSE j[i]]
    ELSE Append(j, c)

\* the list _save_cookies builds by iterating the jar: four attributes a cookie
JarToList(j) ==
    [i \in 1..Len(j) |-> Cookie(j[i].name, j[i].value, j[i].domain, j[i].path)]

\* RequestsCookieJar.set(name, value, domain=...): what the call would do on
\* a jar that has the method; the path is not passed and defaults to "/"
RequestsJarSet(j, rec) ==
    IF rec.name = Absent \/ rec.value = Absent \/ rec.domain = Absent
    THEN [raised |-> TRUE, jar |-> j]
    ELSE [raised |-> FALSE,
          jar |-> SetCookie(j, JarCookie(rec.name, rec.value, rec.domain, "/", FALSE))]

\* self.session.cookies.set(...): session.cookies is an http.cookiejar.CookieJar,
\* which has no attribute `set`, so the call raises AttributeError
SessionCookiesSet(j, rec) == [raised |-> TRUE, jar |-> j]

RECURSIVE ApplyRecords(_, _, _)
\* the for loop of _load_cookies; an exception leaves the loop and is caught
ApplyRecords(recs, i, j) ==
    IF i > Len(recs) THEN j
    ELSE LET r == SessionCookiesSet(j, recs[i])
         IN  IF r.raised THEN r.jar ELSE ApplyRecords(recs, i + 1, r.jar)

\* _load_cookies on an empty jar: the jar it leaves
LoadCookies(f) ==
    IF f.kind = "missing" THEN <<>>
    ELSE IF f.kind = "torn" THEN <<>>
    ELSE ApplyRecords(f.recs, 1, <<>>)

-----------------------------------------------------------------------------
(* _make_request: classification and waits *)

DefaultMaxRetries == 3

RECURSIVE Pow2(_)
Pow2(n) == IF n = 0 THEN 1 ELSE 2 * Pow2(n - 1)

Window(lo, hi) == [lo |-> lo, hi |-> hi]

RequestDelay == Window(8, 15)
HeavyLoadWait == Window(20, 30)
CaptchaWait == Window(30, 60)
NonRedditWait == Window(15, 25)
Backoff(a) == Window(Pow2(a) + 5, Pow2(a) + 15)

\* what session.get can produce: an exception, or a response of which the
\* classifier reads the status, the final URL and the title
Responses ==
    { [exc |-> TRUE, status |-> 0, heavy |-> FALSE, challenge |-> FALSE, reddit |-> FALSE] }
    \cup [exc : {FALSE}, status : {200, 503}, heavy : BOOLEAN,
          challenge : BOOLEAN, reddit : BOOLEAN]

\* variant: the Reddit test comes before the captcha / login test
Classify_RedditFirst(r) ==
    IF r.exc THEN "network"
    ELSE IF r.status # 200 THEN "http_error"
    ELSE IF r.heavy THEN "heavy_load"
    ELSE IF r.reddit THEN "success"
    ELSE IF r.challenge THEN "captcha_login"
    ELSE "wrong_domain"

Classify(r) ==
    IF r.exc THEN "network"
    ELSE IF r.status # 200 THEN "http_error"
    ELSE IF r.heavy THEN "heavy_load"
    ELSE IF r.challenge THEN "captcha_login"
    ELSE IF r.reddit THEN "success"
    ELSE "wrong_domain"

\* variant: the anomaly branches fall through to the backoff (no `continue`)
OutcomeWaits_NoContinue(o, a) ==
    CASE o = "heavy_load" -> <<HeavyLoadWait, Backoff(a)>>
      [] o = "captcha_login" -> <<CaptchaWait, Backoff(a)>>
      [] o = "wrong_domain" -> <<NonRedditWait, Backoff(a)>>
      [] o = "success" -> <<>>
      [] OTHER -> <<Backoff(a)>>

\* the sleeps of one loop iteration after session.get, by outcome
OutcomeWaits(o, a) ==
    CASE o = "heavy_load" -> <<HeavyLoadWait>>
      [] o = "captcha_login" -> <<CaptchaWait>>
      [] o = "wrong_domain" -> <<NonRedditWait, Backoff(a)>>
      [] o = "success" -> <<>>
      [] OTHER -> <<Backoff(a)>>

\* variant: the success branch does not return
Returns_Never(o) == FALSE

\* variant: a page that is not a Reddit page is returned as well
Returns_AnyPage(o) == o \in {"success", "wrong_domain"}

\* `return soup` leaves the loop; every other outcome goes on to the next attempt
Returns(o) == o = "success"

\* variant: the loop test also reads a cancellation flag
LoopContinues_UnlessCancelled(a, n) == a < n /\ ~cancelled

\* variant: range(max_retries + 1)
LoopContinues_OneMore(a, n) == a <= n

\* for attempt in range(max_retries)
LoopContinues(a, n) == a < n

\* variant: no except clause for the exception session.get raises
ExceptCatches_Nothing(o) == FALSE

\* `except Exception` around the body of the loop
ExceptCatches(o) == TRUE

\* variant: _save_cookies moved into the `status_code == 200` branch
SavesAfterResponse_OnlyOk(o) == o # "http_error"

\* _save_cookies is called right after session.get returned, before the status test
SavesAfterResponse(o) == TRUE

\* variant: the callers pass the configured value
CallSiteMaxRetries_Config(cfg) == cfg.maxRetries

\* the callers write self._make_request(url): max_retries is the default
CallSiteMaxRetries(cfg) == DefaultMaxRetries

-----------------------------------------------------------------------------
(* State *)

Pending == [kind |-> "pending", from |-> 0]
NoneResult == [kind |-> "None", from |-> 0]
Soup(k) == [kind |-> "soup", from |-> k]

\* "minimum_score": 300 of the default configuration
MinimumScore == 300

\* "minimum_comments": 15 of the default configuration
MinimumComments == 15

\* a "subreddits" list of the configuration
Subreddits == << <<"T", "I", "F", "U">> >>

Configs == [maxRetries : 1..MaxCfgRetries, minimum_score : {MinimumScore},
            minimum_comments : {MinimumComments}, subreddits : {Subreddits}]

\* a dictionary of request headers; '' stands for a key that is not there
Headers(ua, lang) == [user_agent |-> ua, accept_language |-> lang]

NoHeaders == Headers("", "")

\* a response: status_code, url, and the text of the title element (absent:
\* soup.title is None); exc: session.get raised instead
Response(exc, status, url, title) ==
    [exc |-> exc, status |-> status, url |-> url, title |-> title]

NoResponse == Response(FALSE, 0, <<>>, [has |-> FALSE, val |-> <<>>])

\* thread_data as convert_thread_to_script reads it; complete: it has the
\* keys title and selftext
ThreadOf(complete, score, comments) ==
    [complete |-> complete, score |-> score, num_comments |-> comments]

NoThread == ThreadOf(FALSE, 0, 0)

\* the components generated for a thread, and the compound sentiment of
\* the script made of them, in 1/10000
Parts(hook, main, interrupt, conclusion, cta, compound) ==
    [hook |-> hook, main_content |-> main, pattern_interrupt |-> interrupt,
     conclusion |-> conclusion, call_to_action |-> cta, compound |-> compound]

NoParts == Parts(<<>>, <<>>, <<>>, <<>>, <<>>, 0)

\* script_data (virality_score in 1/100); made FALSE: None
Script(made, text, virality) ==
    [made |-> made, script_text |-> text, character_count |-> Len(text),
     virality_score |-> virality]

NoScript == Script(FALSE, <<>>, 0)

\* selftext and top_comments of a record as the listing parsers emit it
NoDetails == [selftext |-> "", top_comments |-> <<>>]

\* what _fetch_thread_details can leave in a record it got a page for
Details == {NoDetails, [selftext |-> "body", top_comments |-> <<"comment_0">>]}

Thread(s) == [score |-> s, details |-> NoDetails]

\* scores on either side of the threshold
ThreadScores == {MinimumScore - 1, MinimumScore}

\* threads of a parsed listing
ThreadLists == UNION { [1..n -> {Thread(s) : s \in ThreadScores}] : n \in 0..MaxThreads }

NoFetch ==
    /\ fetchKind' = "none"
    /\ maxRetries' = 0
    /\ attempt' = 0
    /\ requests' = 0
    /\ savedThis' = FALSE
    /\ allNet' = TRUE
    /\ wdRetried' = FALSE
    /\ outcome' = "none"
    /\ preDelay' = <<>>
    /\ waits' = <<>>
    /\ result' = Pending
    /\ cancelled' = FALSE

NoOp(o) ==
    /\ op' = o
    /\ total' = 0
    /\ idx' = 0
    /\ collected' = FALSE
    /\ threads' = <<>>
    /\ ti' = 0

ScraperInit ==
    /\ pc = "stopped"
    /\ stopAt = "none"
    /\ config \in Configs
    /\ file \in InitFiles
    /\ fileBefore = MissingFile
    /\ lastSaved = <<>>
    /\ jar = <<>>
    /\ op = "none"
    /\ total = 0
    /\ idx = 0
    /\ collected = FALSE
    /\ threads = <<>>
    /\ ti = 0
    /\ fetchKind = "none"
    /\ maxRetries = 0
    /\ attempt = 0
    /\ requests = 0
    /\ savedThis = FALSE
    /\ allNet = TRUE
    /\ wdRetried = FALSE
    /\ outcome = "none"
    /\ preDelay = <<>>
    /\ waits = <<>>
    /\ result = Pending
    /\ cancelled = FALSE

-----------------------------------------------------------------------------
(* Construction and end of a run *)

\* no page is being parsed
NoParse ==
    /\ useOld = TRUE
    /\ page = <<>>
    /\ stage = "none"
    /\ records = <<>>

\* no result is being assembled
NoAssembly ==
    /\ allThreads = <<>>
    /\ frame = <<>>
    /\ events = <<>>

\* no request is looked at in detail
NoRequest ==
    /\ headers = NoHeaders
    /\ draws = 0
    /\ sent = NoHeaders
    /\ response = NoResponse

\* no thread is being converted
NoConversion ==
    /\ shortsConfig = [max_script_length |-> 0]
    /\ thread = NoThread
    /\ parts = NoParts
    /\ script = NoScript

Init ==
    /\ ScraperInit
    /\ NoParse
    /\ NoAssembly
    /\ NoRequest
    /\ NoConversion

\* RedditScraper.__init__: a fresh jar, then _load_cookies
Construct ==
    /\ pc = "stopped"
    /\ jar' = LoadCookies(file)
    /\ pc' = "ready"
    /\ stopAt' = "none"
    /\ fileBefore' = MissingFile
    /\ NoOp("constructed")
    /\ NoFetch
    /\ UNCHANGED <<staticVars, file, lastSaved>>

\* the process ends: what is on disk stays, the rest is gone
Stop(why) ==
    /\ pc' = "stopped"
    /\ stopAt' = why
    /\ jar' = <<>>
    /\ NoOp("none")
    /\ NoFetch
    /\ UNCHANGED staticVars

\* main returns
Exit ==
    /\ pc = "ready"
    /\ Stop("exit")
    /\ UNCHANGED diskVars

\* the process is killed outside _save_cookies
Crash ==
    /\ pc # "stopped"
    /\ Stop("killed")
    /\ UNCHANGED diskVars

-----------------------------------------------------------------------------
(* _make_request *)

\* entry of _make_request(url, max_retries = n), up to the loop test
StartFetch(kind, n) ==
    /\ fetchKind' = kind
    /\ maxRetries' = n
    /\ attempt' = 0
    /\ requests' = 0
    /\ savedThis' = FALSE
    /\ allNet' = TRUE
    /\ wdRetried' = FALSE
    /\ outcome' = "none"
    /\ preDelay' = <<>>
    /\ waits' = <<>>
    /\ cancelled' = FALSE
    /\ IF LoopContinues(0, n)
       THEN pc' = "send" /\ result' = Pending
       ELSE pc' = "returned" /\ result' = NoneResult

\* end of a loop iteration that did not return: next attempt, or `return None`
NextAttempt ==
    /\ attempt' = attempt + 1
    /\ IF LoopContinues(attempt + 1, maxRetries)
       THEN pc' = "send" /\ result' = result
       ELSE pc' = "returned" /\ result' = NoneResult

\* the caller of a direct _make_request signals cancellation at a retry
\* boundary; no statement of _make_request reads the signal
Cancel ==
    /\ pc = "send"
    /\ fetchKind = "direct"
    /\ ~cancelled
    /\ cancelled' = TRUE
    /\ UNCHANGED <<pc, stopAt, staticVars, diskVars, jar, opVars, fetchKind,
                   maxRetries, attempt, requests, savedThis, allNet, wdRetried,
                   outcome, preDelay, waits, result>>

\* the part of an iteration up to session.get: the delay before a retry
BeforeGet ==
    /\ requests' = requests + 1
    /\ preDelay' = IF attempt > 0 THEN <<RequestDelay>> ELSE <<>>
    /\ wdRetried' = (wdRetried \/ outcome = "wrong_domain")
    /\ savedThis' = FALSE

\* an iteration whose session.get raises: delay, get, except, backoff
SendFails ==
    /\ pc = "send"
    /\ BeforeGet
    /\ outcome' = "network"
    /\ IF ExceptCatches("network")
       THEN /\ waits' = OutcomeWaits("network", attempt)
            /\ NextAttempt
            /\ UNCHANGED <<stopAt, jar, opVars, fetchKind, maxRetries, allNet>>
       ELSE /\ pc' = "stopped"
            /\ stopAt' = "raised"
            /\ jar' = <<>>
            /\ NoOp("none")
            /\ UNCHANGED <<fetchKind, maxRetries, attempt, allNet, waits, result>>
    /\ UNCHANGED <<staticVars, diskVars, cancelled>>

\* an iteration whose session.get returns a response: delay, get; the
\* response's cookies are in the jar when get returns
SendResponds ==
    /\ pc = "send"
    /\ BeforeGet
    /\ \E r \in Responses :
          /\ ~r.exc
          /\ outcome' = Classify(r)
    /\ \E j \in {jar} \cup { SetCookie(jar, c) : c \in ServerCookies } : jar' = j
    /\ allNet' = FALSE
    /\ waits' = <<>>
    /\ pc' = "got"
    /\ UNCHANGED <<stopAt, staticVars, diskVars, opVars, fetchKind, maxRetries,
                   attempt, result, cancelled>>

\* _save_cookies: the list is built, open(cookies_file, 'w') truncates the
\* file, json.dump writes the list and the with block closes the file
SaveCookies ==
    /\ lastSaved' = JarToList(jar)
    /\ file' = JsonFile(JarToList(jar))
    /\ savedThis' = TRUE
    /\ UNCHANGED fileBefore

\* the rest of an iteration that got a response: _save_cookies, then the
\* status, final URL and title tests with their sleeps
FinishAttempt ==
    /\ pc = "got"
    /\ IF SavesAfterResponse(outcome)
       THEN SaveCookies
       ELSE UNCHANGED <<diskVars, savedThis>>
    /\ waits' = OutcomeWaits(outcome, attempt)
    /\ IF Returns(outcome)
       THEN /\ pc' = "returned"
            /\ result' = Soup(requests)
            /\ attempt' = attempt
       ELSE NextAttempt
    /\ UNCHANGED <<stopAt, staticVars, jar, opVars, fetchKind, maxRetries,
                   requests, allNet, wdRetried, outcome, preDelay, cancelled>>

\* the process is killed inside _save_cookies, after open truncated the file:
\* the first k records of the list have reached the file
CrashInSave ==
    /\ pc = "got"
    /\ SavesAfterResponse(outcome)
    /\ \E k \in 0..Len(jar) : file' = TornFile(SubSeq(JarToList(jar), 1, k))
    /\ fileBefore' = file
    /\ lastSaved' = JarToList(jar)
    /\ Stop("saving")

-----------------------------------------------------------------------------
(* The callers of _make_request *)

\* the subreddit list of find_storytelling_threads has 8 names
StorySubreddits == 8

Min(a, b) == IF a <= b THEN a ELSE b

ScrapeOps == {"scrape", "viral", "story"}

FetchKindOf(o) == IF o = "search" THEN "search" ELSE "listing"

\* get_viral_threads selects df['score']: scrape_subreddits returned
\* pd.DataFrame(), which has no columns, when all_threads was empty
ViralSelectRaises(o, coll) == o = "viral" /\ ~coll

\* the operation returns its frame to main, or its exception leaves main
OpEnds(o, coll) ==
    IF ViralSelectRaises(o, coll)
    THEN Stop("KeyError")
    ELSE /\ pc' = "ready"
         /\ NoOp("idle")
         /\ NoFetch
         /\ UNCHANGED <<stopAt, staticVars, jar>>

\* all_threads.extend(threads), then the operation's loop goes to its next
\* subreddit or keyword, or ends
NextItem(coll) ==
    IF idx < total
    THEN /\ idx' = idx + 1
         /\ collected' = coll
         /\ threads' = <<>>
         /\ ti' = 0
         /\ StartFetch(FetchKindOf(op), CallSiteMaxRetries(config))
         /\ UNCHANGED <<op, total, stopAt, staticVars, jar>>
    ELSE OpEnds(op, coll)

\* variant: the threshold test is strict
Qualifies_Strict(score, cfg) == score > cfg.minimum_score

\* thread["score"] >= self.config["minimum_score"]
Qualifies(score, cfg) == score >= cfg.minimum_score

\* the thread loop goes to the next thread with score >= minimum_score after
\* position k and fetches its details; with none left the loop ends
NextDetail(th, k) ==
    LET cand == { i \in (k + 1)..Len(th) : Qualifies(th[i].score, config) }
    IN  IF cand # {}
        THEN /\ ti' = CHOOSE i \in cand : \A m \in cand : i <= m
             /\ threads' = th
             /\ StartFetch("detail", CallSiteMaxRetries(config))
             /\ UNCHANGED <<op, total, idx, collected, stopAt, staticVars, jar>>
        ELSE NextItem(collected \/ Len(th) > 0)

\* the loop of scrape_subreddits starts with the first of n subreddits
StartScrape(o, n) ==
    /\ pc = "ready"
    /\ op' = o
    /\ total' = n
    /\ idx' = 1
    /\ collected' = FALSE
    /\ threads' = <<>>
    /\ ti' = 0
    /\ StartFetch("listing", CallSiteMaxRetries(config))
    /\ UNCHANGED <<stopAt, staticVars, diskVars, jar>>

\* scrape_subreddits(subreddits)
ScrapeSubreddits == \E n \in 1..MaxSubs : StartScrape("scrape", n)

\* get_viral_threads: scrape_subreddits(self.config["subreddits"], "day")
GetViralThreads == \E n \in 1..MaxSubs : StartScrape("viral", n)

\* find_storytelling_threads: scrape_subreddits(story_subreddits, time_filter)
FindStorytellingThreads == StartScrape("story", Min(StorySubreddits, MaxSubs))

\* search_keyword_threads(keywords): the loop starts with the first keyword
SearchKeywordThreads ==
    /\ pc = "ready"
    /\ \E n \in 1..MaxSubs : total' = n
    /\ op' = "search"
    /\ idx' = 1
    /\ collected' = FALSE
    /\ threads' = <<>>
    /\ ti' = 0
    /\ StartFetch("search", CallSiteMaxRetries(config))
    /\ UNCHANGED <<stopAt, staticVars, diskVars, jar>>

\* _make_request(url, n) called with an explicit max_retries
DirectRequest ==
    /\ pc = "ready"
    /\ \E n \in 0..MaxDirectRetries : StartFetch("direct", n)
    /\ op' = "direct"
    /\ UNCHANGED <<stopAt, staticVars, diskVars, jar, total, idx, collected,
                   threads, ti>>

DirectReturns ==
    /\ pc = "returned"
    /\ fetchKind = "direct"
    /\ pc' = "ready"
    /\ NoOp("idle")
    /\ NoFetch
    /\ UNCHANGED <<stopAt, staticVars, diskVars, jar>>

\* `if not soup`: _scrape_without_api returns [] and scrape_subreddits goes on;
\* search_keyword_threads continues with the next keyword
ListingFailed ==
    /\ pc = "returned"
    /\ fetchKind \in {"listing", "search"}
    /\ result.kind = "None"
    /\ NextItem(collected)
    /\ UNCHANGED diskVars

\* the listing page is parsed into the list `threads`
ListingParsed ==
    /\ pc = "returned"
    /\ fetchKind \in {"listing", "search"}
    /\ result.kind = "soup"
    /\ pc' = "parsed"
    /\ \E th \in ThreadLists : threads' = th
    /\ ti' = 0
    /\ NoFetch
    /\ UNCHANGED <<stopAt, staticVars, diskVars, jar, op, total, idx, collected>>

\* `for i, thread in enumerate(threads)`: the thread loop starts
ThreadLoop ==
    /\ pc = "parsed"
    /\ NextDetail(threads, 0)
    /\ UNCHANGED diskVars

\* _fetch_thread_details returns: `if not soup` the record as it was, else
\* the record with what the page gave
DetailReturned ==
    /\ pc = "returned"
    /\ fetchKind = "detail"
    /\ \E d \in (IF result.kind = "soup" THEN Details ELSE {NoDetails}) :
          NextDetail([threads EXCEPT ![ti].details = d], ti)
    /\ UNCHANGED diskVars

-----------------------------------------------------------------------------

Next ==
    \/ Construct
    \/ Exit
    \/ Crash
    \/ CrashInSave
    \/ ScrapeSubreddits
    \/ GetViralThreads
    \/ FindStorytellingThreads
    \/ SearchKeywordThreads
    \/ DirectRequest
    \/ Cancel
    \/ SendFails
    \/ SendResponds
    \/ FinishAttempt
    \/ DirectReturns
    \/ ListingFailed
    \/ ListingParsed
    \/ ThreadLoop
    \/ DetailReturned

Spec == Init /\ [][Next]_vars

-----------------------------------------------------------------------------
(* Strings: a Python str is the sequence of its characters *)

DigitChars == {"0", "1", "2", "3", "4", "5", "6", "7", "8", "9"}

LowerChars ==
    {"a", "b", "c", "d", "e", "f", "g", "h", "i", "j", "k", "l", "m",
     "n", "o", "p", "q", "r", "s", "t", "u", "v", "w", "x", "y", "z"}

\* the class [a-z0-9] of the id patterns
LowerAlnum == LowerChars \cup DigitChars

Whitespace == {" "}

DigitValue(c) ==
    CASE c = "0" -> 0 [] c = "1" -> 1 [] c = "2" -> 2 [] c = "3" -> 3
      [] c = "4" -> 4 [] c = "5" -> 5 [] c = "6" -> 6 [] c = "7" -> 7
      [] c = "8" -> 8 [] c = "9" -> 9

DigitChar(n) ==
    CASE n = 0 -> "0" [] n = 1 -> "1" [] n = 2 -> "2" [] n = 3 -> "3"
      [] n = 4 -> "4" [] n = 5 -> "5" [] n = 6 -> "6" [] n = 7 -> "7"
      [] n = 8 -> "8" [] n = 9 -> "9"

\* str.lower on one character
LowerOf(c) ==
    CASE c = "A" -> "a" [] c = "B" -> "b" [] c = "C" -> "c" [] c = "D" -> "d"
      [] c = "E" -> "e" [] c = "F" -> "f" [] c = "G" -> "g" [] c = "H" -> "h"
      [] c = "I" -> "i" [] c = "J" -> "j" [] c = "K" -> "k" [] c = "L" -> "l"
      [] c = "M" -> "m" [] c = "N" -> "n" [] c = "O" -> "o" [] c = "P" -> "p"
      [] c = "Q" -> "q" [] c = "R" -> "r" [] c = "S" -> "s" [] c = "T" -> "t"
      [] c = "U" -> "u" [] c = "V" -> "v" [] c = "W" -> "w" [] c = "X" -> "x"
      [] c = "Y" -> "y" [] c = "Z" -> "z" [] OTHER -> c

SetMax(S) == CHOOSE x \in S : \A y \in S : y <= x

SetMin(S) == CHOOSE x \in S : \A y \in S : x <= y

Pow10(n) == IF n = 0 THEN 1 ELSE IF n = 1 THEN 10 ELSE IF n = 2 THEN 100
            ELSE IF n = 3 THEN 1000 ELSE IF n = 4 THEN 10000
            ELSE IF n = 5 THEN 100000 ELSE 1000000

\* s.lower()
Lower(s) == [i \in DOMAIN s |-> LowerOf(s[i])]

\* s.strip()
Strip(s) ==
    LET keep == { i \in DOMAIN s : s[i] \notin Whitespace }
    IN  IF keep = {} THEN <<>> ELSE SubSeq(s, SetMin(keep), SetMax(keep))

\* s.startswith(p)
StartsWith(s, p) == Len(s) >= Len(p) /\ SubSeq(s, 1, Len(p)) = p

\* s[i:].startswith(p), i counted from 1
HasAt(s, i, p) == i + Len(p) - 1 <= Len(s) /\ SubSeq(s, i, i + Len(p) - 1) = p

\* p in s
HasSub(s, p) == \E i \in 1..(Len(s) + 1) : HasAt(s, i, p)

\* s.replace(c, '') for a one-character c
RemoveChar(s, c) == SelectSeq(s, LAMBDA x : x # c)

\* re.sub(r'[^\d]', '', s)
KeepDigits(s) == SelectSeq(s, LAMBDA x : x \in DigitChars)

\* s.split(c)[-1] for a one-character c
SplitLast(s, c) ==
    LET at == { i \in DOMAIN s : s[i] = c }
    IN  IF at = {} THEN s ELSE SubSeq(s, SetMax(at) + 1, Len(s))

IsDigits(s) == s # <<>> /\ \A i \in DOMAIN s : s[i] \in DigitChars

RECURSIVE DecValue(_)
\* the number a string of decimal digits denotes
DecValue(s) ==
    IF s = <<>> THEN 0
    ELSE 10 * DecValue(SubSeq(s, 1, Len(s) - 1)) + DigitValue(s[Len(s)])

RECURSIVE DecString(_)
\* str(n) for n >= 0
DecString(n) ==
    IF n < 10 THEN <<DigitChar(n)>>
    ELSE Append(DecString(n \div 10), DigitChar(n % 10))

\* a numeric literal without its sign, and the sign
Unsigned(s) == IF s # <<>> /\ s[1] \in {"+", "-"} THEN Tail(s) ELSE s

Negative(s) == s # <<>> /\ s[1] = "-"

\* int(s) does not raise ValueError: optional sign, then decimal digits
IntOk(s) == IsDigits(Unsigned(Strip(s)))

\* int(s)
IntOf(s) ==
    LET t == Strip(s)
    IN  IF Negative(t) THEN 0 - DecValue(Unsigned(t)) ELSE DecValue(Unsigned(t))

\* the digits before and after the point of an unsigned decimal literal
WholePart(u) ==
    LET dots == { i \in DOMAIN u : u[i] = "." }
    IN  IF dots = {} THEN u ELSE SubSeq(u, 1, SetMin(dots) - 1)

FracPart(u) ==
    LET dots == { i \in DOMAIN u : u[i] = "." }
    IN  IF dots = {} THEN <<>> ELSE SubSeq(u, SetMin(dots) + 1, Len(u))

\* float(s) does not raise ValueError: optional sign, digits with at most one
\* point and at least one digit
FloatOk(s) ==
    LET u == Unsigned(Strip(s))
    IN  /\ \A i \in DOMAIN WholePart(u) : WholePart(u)[i] \in DigitChars
        /\ \A i \in DOMAIN FracPart(u) : FracPart(u)[i] \in DigitChars
        /\ WholePart(u) # <<>> \/ FracPart(u) # <<>>

\* int(float(s) * mult): the product, truncated toward zero
TruncTimes(s, mult) ==
    LET t == Strip(s)
        u == Unsigned(t)
        scale == Pow10(Len(FracPart(u)))
        mag == ((DecValue(WholePart(u)) * scale + DecValue(FracPart(u))) * mult)
                  \div scale
    IN  IF Negative(t) THEN 0 - mag ELSE mag

\* end of the longest run of characters of class cls that starts at i
\* (i - 1 when s[i] is not in cls)
RunEnd(s, i, cls) ==
    SetMax({ j \in (i - 1)..Len(s) : \A m \in i..j : s[m] \in cls })

NoMatch == [found |-> FALSE, group |-> <<>>]

Match(g) == [found |-> TRUE, group |-> g]

\* re.search(r'/comments/([a-z0-9]+)/', s): the leftmost match and its group
CommentsId(s) ==
    LET pre == <<"/", "c", "o", "m", "m", "e", "n", "t", "s", "/">>
        ok(i) == /\ HasAt(s, i, pre)
                 /\ RunEnd(s, i + Len(pre), LowerAlnum) >= i + Len(pre)
                 /\ HasAt(s, RunEnd(s, i + Len(pre), LowerAlnum) + 1, <<"/">>)
        at == { i \in DOMAIN s : ok(i) }
    IN  IF at = {} THEN NoMatch
        ELSE LET i == SetMin(at)
             IN  Match(SubSeq(s, i + Len(pre), RunEnd(s, i + Len(pre), LowerAlnum)))

\* re.search(p + r'([a-z0-9]+)', s) at position i
PrefixedIdAt(s, i, p) ==
    HasAt(s, i, p) /\ RunEnd(s, i + Len(p), LowerAlnum) >= i + Len(p)

PrefixedGroup(s, i, p) == SubSeq(s, i + Len(p), RunEnd(s, i + Len(p), LowerAlnum))

\* re.search(r't3_([a-z0-9]+)|post_([a-z0-9]+)', s), then group(1) or group(2)
T3OrPostId(s) ==
    LET at == { i \in DOMAIN s :
                  PrefixedIdAt(s, i, <<"t", "3", "_">>) \/ PrefixedIdAt(s, i, <<"p", "o", "s", "t", "_">>) }
    IN  IF at = {} THEN NoMatch
        ELSE LET i == SetMin(at)
             IN  IF PrefixedIdAt(s, i, <<"t", "3", "_">>)
                 THEN Match(PrefixedGroup(s, i, <<"t", "3", "_">>))
                 ELSE Match(PrefixedGroup(s, i, <<"p", "o", "s", "t", "_">>))

\* re.search(r't3_([a-z0-9]+)', s)
T3Id(s) ==
    LET at == { i \in DOMAIN s : PrefixedIdAt(s, i, <<"t", "3", "_">>) }
    IN  IF at = {} THEN NoMatch ELSE Match(PrefixedGroup(s, SetMin(at), <<"t", "3", "_">>))

\* re.search(r'(\d+(\.\d+)?[km]?)', s, re.IGNORECASE), group(1): the leftmost
\* run of digits, a point with digits after it, a k or m
ScoreLike(s) ==
    LET at == { i \in DOMAIN s : s[i] \in DigitChars }
    IN  IF at = {} THEN NoMatch
        ELSE LET i == SetMin(at)
                 a == RunEnd(s, i, DigitChars)
                 b == IF HasAt(s, a + 1, <<".">>) /\ RunEnd(s, a + 2, DigitChars) >= a + 2
                      THEN RunEnd(s, a + 2, DigitChars)
                      ELSE a
                 c == IF b + 1 <= Len(s) /\ s[b + 1] \in {"k", "m", "K", "M"}
                      THEN b + 1
                      ELSE b
             IN  Match(SubSeq(s, i, c))

Origin == <<"h", "t", "t", "p", "s", ":", "/", "/", "w", "w", "w", ".", "r", "e", "d", "d", "i", "t", ".", "c", "o", "m">>

\* urljoin('https://www.reddit.com', url) for a url without scheme, query,
\* fragment and dot segments: a network-path reference takes the base's
\* scheme, an absolute path the base's origin, a relative path is put under
\* the base's empty path
UrlJoin(url) ==
    IF url = <<>> THEN Origin
    ELSE IF StartsWith(url, <<"/", "/">>) THEN <<"h", "t", "t", "p", "s", ":">> \o url
    ELSE IF StartsWith(url, <<"/">>) THEN Origin \o url
    ELSE Origin \o <<"/">> \o url

-----------------------------------------------------------------------------
(* Listing markup *)

\* tag.get(name): an attribute, or None
NoAttr == [has |-> FALSE, val |-> <<>>]

Attr(s) == [has |-> TRUE, val |-> s]

\* tag.get(name, default)
Get(attr, default) == IF attr.has THEN attr.val ELSE default

\* the truth value of an attribute value: None and '' are false
Truthy(attr) == attr.has /\ attr.val # <<>>

NoLink == [present |-> FALSE, href |-> NoAttr, text |-> <<>>]

Link(h, t) == [present |-> TRUE, href |-> h, text |-> t]

NoScoreElement == [present |-> FALSE, title |-> NoAttr, text |-> <<>>]

ScoreElement(t, x) == [present |-> TRUE, title |-> t, text |-> x]

\* one listing element: its tag name, class list, id and data-fullname
\* attributes, its title link and its score element
Element(tag, classes, id, fullname, link, score) ==
    [tag |-> tag, classes |-> classes, id |-> id, fullname |-> fullname,
     link |-> link, score |-> score]

\* a thread record as the parsers build it
Record(id, title, score, permalink) ==
    [id |-> id, title |-> title, score |-> score, num_comments |-> 0,
     permalink |-> permalink, selftext |-> "", top_comments |-> <<>>]

UnknownTitle == <<"U", "n", "k", "n", "o", "w", "n", " ", "T", "i", "t", "l", "e">>

\* f"unknown_{len(threads)}"
UnknownId(n) == <<"u", "n", "k", "n", "o", "w", "n", "_">> \o DecString(n)

-----------------------------------------------------------------------------
(* _parse_old_reddit *)

\* the score of a post of the old layout
OldScore(el, cfg) ==
    IF ~el.present THEN 0
    ELSE LET attr == Get(el.title, <<"0">>)
             text == Lower(Strip(el.text))
         IN  IF IntOk(attr) THEN IntOf(attr)
             ELSE IF HasSub(text, <<"k">>)
             THEN IF FloatOk(RemoveChar(text, "k"))
                  THEN TruncTimes(RemoveChar(text, "k"), 1000)
                  ELSE cfg.minimum_score
             ELSE IF IntOk(KeepDigits(text))
                  THEN IntOf(KeepDigits(text))
                  ELSE cfg.minimum_score

\* the permalink of a post of the old layout; <<>> stands for None and ''
OldPermalink(link) ==
    LET href == IF link.present /\ link.href.has THEN link.href.val ELSE <<>>
    IN  IF href # <<>> /\ ~StartsWith(href, <<"h", "t", "t", "p">>)
        THEN IF StartsWith(href, <<"/">>)
             THEN Origin \o href
             ELSE Origin \o <<"/">> \o href
        ELSE href

\* 'stickied' in post.get('class', []) or 'promoted' in post.get('class', [])
OldSkips(post) == <<"s", "t", "i", "c", "k", "i", "e", "d">> \in post.classes \/ <<"p", "r", "o", "m", "o", "t", "e", "d">> \in post.classes

\* one iteration of the loop over posts
OldStep(out, post, cfg) ==
    IF OldSkips(post) THEN out
    ELSE LET post_id == SplitLast(Get(post.id, <<>>), "_")
             title == IF post.link.present THEN Strip(post.link.text) ELSE UnknownTitle
             score == OldScore(post.score, cfg)
             permalink == OldPermalink(post.link)
         IN  IF permalink # <<>>
             THEN Append(out, Record(post_id, title, score, permalink))
             ELSE out

RECURSIVE OldLoop(_, _, _)
OldLoop(out, posts, cfg) ==
    IF posts = <<>> THEN out
    ELSE OldLoop(OldStep(out, Head(posts), cfg), Tail(posts), cfg)

\* soup.find_all('div', class_='thing')
OldPosts(pg) ==
    SelectSeq(pg, LAMBDA e : e.tag = <<"d", "i", "v">> /\ <<"t", "h", "i", "n", "g">> \in e.classes)

ParseOldReddit(pg, cfg) == OldLoop(<<>>, OldPosts(pg), cfg)

-----------------------------------------------------------------------------
(* _parse_new_reddit *)

\* the four ways post elements are looked for, in order
ById(pg) ==
    SelectSeq(pg, LAMBDA e : /\ e.tag = <<"d", "i", "v">>
                             /\ Truthy(e.id)
                             /\ \/ StartsWith(e.id.val, <<"t", "3", "_">>)
                                \/ StartsWith(e.id.val, <<"p", "o", "s", "t", "_">>))

ByClass(pg) ==
    SelectSeq(pg, LAMBDA e : /\ e.tag = <<"d", "i", "v">>
                             /\ \E c \in e.classes :
                                   HasSub(c, <<"P", "o", "s", "t">>) \/ HasSub(c, <<"p", "o", "s", "t">>))

ByArticle(pg) == SelectSeq(pg, LAMBDA e : e.tag = <<"a", "r", "t", "i", "c", "l", "e">>)

ByShreddit(pg) == SelectSeq(pg, LAMBDA e : HasSub(e.tag, <<"s", "h", "r", "e", "d", "d", "i", "t", "-", "p", "o", "s", "t">>))

\* variant: the results of the four searches are put together
PostElements_Merged(pg) == ById(pg) \o ByClass(pg) \o ByArticle(pg) \o ByShreddit(pg)

PostElements(pg) ==
    IF ById(pg) # <<>> THEN ById(pg)
    ELSE IF ByClass(pg) # <<>> THEN ByClass(pg)
    ELSE IF ByArticle(pg) # <<>> THEN ByArticle(pg)
    ELSE ByShreddit(pg)

\* h and '/comments/' in h
IsCommentsHref(attr) == Truthy(attr) /\ HasSub(attr.val, <<"/", "c", "o", "m", "m", "e", "n", "t", "s", "/">>)

\* one iteration of the loop over all_links
LinkStep(acc, link, cfg) ==
    IF IsCommentsHref(link.href) /\ link.href.val \notin acc.seen
    THEN LET href == link.href.val
             title == Strip(link.text)
             full_url == IF StartsWith(href, <<"h", "t", "t", "p">>) THEN href ELSE UrlJoin(href)
             m == CommentsId(full_url)
             post_id == IF m.found THEN m.group ELSE UnknownId(Len(acc.threads))
         IN  [seen |-> acc.seen \cup {href},
              threads |-> IF Len(title) > 5
                          THEN Append(acc.threads,
                                      Record(post_id, title, cfg.minimum_score, full_url))
                          ELSE acc.threads]
    ELSE acc

RECURSIVE LinkLoop(_, _, _)
LinkLoop(acc, links, cfg) ==
    IF links = <<>> THEN acc.threads
    ELSE LinkLoop(LinkStep(acc, Head(links), cfg), Tail(links), cfg)

\* soup.find_all('a', href=lambda h: h and '/comments/' in h)
AllLinks(pg) ==
    LET with == SelectSeq(pg, LAMBDA e : e.link.present /\ IsCommentsHref(e.link.href))
    IN  [i \in DOMAIN with |-> with[i].link]

\* the id of a post element: its id attribute, any string attribute, the
\* permalink, then the ordinal
NewPostId(post, n) ==
    LET m1 == IF Truthy(post.id) THEN T3OrPostId(post.id.val) ELSE NoMatch
        m2 == IF post.id.has /\ T3Id(post.id.val).found THEN T3Id(post.id.val)
              ELSE IF post.fullname.has THEN T3Id(post.fullname.val)
              ELSE NoMatch
        m3 == IF post.link.present /\ IsCommentsHref(post.link.href)
              THEN CommentsId(post.link.href.val)
              ELSE NoMatch
    IN  IF m1.found THEN m1.group
        ELSE IF m2.found THEN m2.group
        ELSE IF m3.found THEN m3.group
        ELSE UnknownId(n)

\* the title of a post element without h1, h2, h3: a link text of more than
\* 15 characters
NewTitle(post) ==
    IF post.link.present /\ Len(Strip(post.link.text)) > 15
    THEN Strip(post.link.text)
    ELSE UnknownTitle

\* score_text: the text of the element with a score class, else the first
\* string of the post that looks like a score; <<>> stands for None and ''
NewScoreText(post) ==
    IF post.score.present /\ Strip(post.score.text) # <<>>
    THEN Strip(post.score.text)
    ELSE LET strings == (IF post.score.present THEN <<post.score.text>> ELSE <<>>)
                           \o (IF post.link.present THEN <<post.link.text>> ELSE <<>>)
             hits == { i \in DOMAIN strings : ScoreLike(strings[i]).found }
         IN  IF hits = {} THEN <<>> ELSE ScoreLike(strings[SetMin(hits)]).group

\* the score of a post element; raised: float() raised ValueError, which
\* only the except clause of the loop body catches
NewScore(post, cfg) ==
    LET text == RemoveChar(Lower(NewScoreText(post)), ",")
        to(n) == [raised |-> FALSE, score |-> n]
        raise == [raised |-> TRUE, score |-> 0]
    IN  IF NewScoreText(post) = <<>> THEN to(cfg.minimum_score)
        ELSE IF HasSub(text, <<"k">>)
        THEN IF FloatOk(RemoveChar(text, "k"))
             THEN to(TruncTimes(RemoveChar(text, "k"), 1000))
             ELSE raise
        ELSE IF HasSub(text, <<"m">>)
        THEN IF FloatOk(RemoveChar(text, "m"))
             THEN to(TruncTimes(RemoveChar(text, "m"), 1000000))
             ELSE raise
        ELSE IF IntOk(KeepDigits(text))
             THEN to(IntOf(KeepDigits(text)))
             ELSE to(cfg.minimum_score)

\* the permalink of a post element; <<>> stands for None and ''
NewPermalink(link) ==
    IF link.present /\ IsCommentsHref(link.href)
    THEN IF StartsWith(link.href.val, <<"/">>)
         THEN Origin \o link.href.val
         ELSE link.href.val
    ELSE <<>>

\* one iteration of the loop over post_elements; the class list of the
\* element is not read
NewStep(out, post, cfg) ==
    IF NewScore(post, cfg).raised \/ NewPermalink(post.link) = <<>>
    THEN out
    ELSE Append(out, Record(NewPostId(post, Len(out)), NewTitle(post),
                                NewScore(post, cfg).score, NewPermalink(post.link)))

RECURSIVE NewLoop(_, _, _)
NewLoop(out, posts, cfg) ==
    IF posts = <<>> THEN out
    ELSE NewLoop(NewStep(out, Head(posts), cfg), Tail(posts), cfg)

ParseNewReddit(pg, cfg) ==
    IF PostElements(pg) = <<>>
    THEN LinkLoop([seen |-> {}, threads |-> <<>>], AllLinks(pg), cfg)
    ELSE NewLoop(<<>>, PostElements(pg), cfg)

-----------------------------------------------------------------------------
(* Listing pages given to the parsers *)

MaxScoreLen == 4
MaxPosts == 2

ScoreAlphabet == {"1", "2", ".", "k", "K", "m", "-"}

ScoreTexts ==
    UNION { [1..n -> ScoreAlphabet] : n \in 0..MaxScoreLen } \cup
    { <<"1", ",", "2", "2", "2">>, <<"1", ",", "2", "2", "2", "k">>, <<"1", ",", "2", "k">>, <<" ", "2", "4", "0", " ">>, <<"1", "2", ".", "5", "K">>, <<"3", "M">>,
      <<"2", "4", "0", " ", "p", "o", "i", "n", "t", "s">>, <<"x">>, <<"v", "o", "t", "e">> }

TitleAttrs == { NoAttr, Attr(<<"2", "4", "0">>), Attr(<<"-", "5">>), Attr(<<" ", "1", "2", " ">>), Attr(<<"1", ".", "2", "k">>) }

OldScoreElements ==
    { NoScoreElement } \cup
    { ScoreElement(Attr(<<>>), x) : x \in ScoreTexts } \cup
    { ScoreElement(t, x) : t \in TitleAttrs, x \in { <<>>, <<"1", ".", "2", "k">> } }

NewScoreElements ==
    { NoScoreElement } \cup { ScoreElement(NoAttr, x) : x \in ScoreTexts }

BaseHref == <<"/", "r", "/", "f", "o", "o", "/", "c", "o", "m", "m", "e", "n", "t", "s", "/", "a", "b", "c", "1", "2", "3", "/", "t", "i", "t", "l", "e", "/">>

BaseText == <<"A", " ", "l", "o", "n", "g", " ", "s", "t", "o", "r", "y", " ", "t", "i", "t", "l", "e">>

Hrefs ==
    { BaseHref,
      <<"/", "r", "/", "f", "o", "o", "/", "c", "o", "m", "m", "e", "n", "t", "s", "/", "a", "b", "c", "1", "2", "4", "/", "o", "t", "h", "e", "r", "/">>,
      <<"/", "/", "w", "w", "w", ".", "r", "e", "d", "d", "i", "t", ".", "c", "o", "m", "/", "r", "/", "f", "o", "o", "/", "c", "o", "m", "m", "e", "n", "t", "s", "/", "a", "b", "c", "1", "2", "3", "/", "t", "i", "t", "l", "e", "/">>,
      <<"h", "t", "t", "p", "s", ":", "/", "/", "w", "w", "w", ".", "r", "e", "d", "d", "i", "t", ".", "c", "o", "m", "/", "r", "/", "f", "o", "o", "/", "c", "o", "m", "m", "e", "n", "t", "s", "/", "a", "b", "c", "1", "2", "3", "/", "t", "i", "t", "l", "e", "/">>,
      <<"h", "t", "t", "p", "s", ":", "/", "/", "e", "x", "a", "m", "p", "l", "e", ".", "c", "o", "m", "/", "a", "r", "t", "i", "c", "l", "e">>,
      <<"r", "/", "f", "o", "o", "/", "c", "o", "m", "m", "e", "n", "t", "s", "/", "a", "b", "c", "1", "2", "3", "/", "t", "i", "t", "l", "e", "/">>,
      <<"/", "r", "/", "f", "o", "o", "/">>,
      <<"/", "r", "/", "f", "o", "o", "/", "c", "o", "m", "m", "e", "n", "t", "s", "/", "A", "B", "C", "/", "t", "i", "t", "l", "e", "/">>,
      <<"/", "r", "/", "f", "o", "o", "/", "c", "o", "m", "m", "e", "n", "t", "s", "/", "a", "b", "c", "1", "2", "3">>,
      <<>> }

LinkTexts == { BaseText, <<>>, <<"S", "h", "o", "r", "t">>, <<"2", " ", "c", "a", "t", "s", " ", "a", "n", "d", " ", "a", " ", "l", "o", "n", "g", " ", "s", "t", "o", "r", "y">> }

Links ==
    { NoLink, Link(NoAttr, BaseText) } \cup
    { Link(Attr(h), t) : h \in Hrefs, t \in LinkTexts }

OldIds == { NoAttr, Attr(<<>>), Attr(<<"t", "h", "i", "n", "g", "_", "t", "3", "_", "a", "b", "c", "1", "2", "3">>), Attr(<<"t", "h", "i", "n", "g", "_", "t", "3", "_", "a", "b", "c", "1", "2", "4">>) }

NewIds ==
    { NoAttr, Attr(<<"t", "3", "_", "a", "b", "c", "1", "2", "3">>), Attr(<<"p", "o", "s", "t", "_", "a", "b", "c", "1", "2", "3">>), Attr(<<"t", "3", "_">>),
      Attr(<<"p", "o", "s", "t", "_", "t", "3", "_", "a", "b", "c", "1", "2", "3">>), Attr(<<"t", "3", "_", "A", "B", "C">>) }

OldBase ==
    Element(<<"d", "i", "v">>, { <<"t", "h", "i", "n", "g">> }, Attr(<<"t", "h", "i", "n", "g", "_", "t", "3", "_", "a", "b", "c", "1", "2", "3">>), Attr(<<"t", "3", "_", "a", "b", "c", "1", "2", "3">>),
            Link(Attr(BaseHref), BaseText), ScoreElement(Attr(<<"2", "4", "0">>), <<"2", "4", "0">>))

NewBase ==
    Element(<<"d", "i", "v">>, { <<"P", "o", "s", "t">> }, Attr(<<"t", "3", "_", "a", "b", "c", "1", "2", "3">>), NoAttr,
            Link(Attr(BaseHref), BaseText), ScoreElement(NoAttr, <<"2", "4", "0">>))

OldElements ==
    { [OldBase EXCEPT !.score = s] : s \in OldScoreElements } \cup
    { [OldBase EXCEPT !.id = i, !.link = l] : i \in OldIds, l \in Links } \cup
    { [OldBase EXCEPT !.classes = { <<"t", "h", "i", "n", "g">>, c }] : c \in { <<"s", "t", "i", "c", "k", "i", "e", "d">>, <<"p", "r", "o", "m", "o", "t", "e", "d">> } }

NewElements ==
    { [NewBase EXCEPT !.score = s] : s \in NewScoreElements } \cup
    { [NewBase EXCEPT !.id = i, !.link = l] : i \in NewIds, l \in Links } \cup
    { [NewBase EXCEPT !.id = NoAttr, !.fullname = Attr(<<"t", "3", "_", "a", "b", "c", "1", "2", "3">>), !.link = l] :
         l \in Links } \cup
    { [NewBase EXCEPT !.classes = { <<"P", "o", "s", "t">>, <<"s", "t", "i", "c", "k", "i", "e", "d">> }] } \cup
    { [NewBase EXCEPT !.tag = t, !.classes = {}, !.id = NoAttr, !.link = l] :
         t \in { <<"d", "i", "v">>, <<"a", "r", "t", "i", "c", "l", "e">>, <<"s", "h", "r", "e", "d", "d", "i", "t", "-", "p", "o", "s", "t">>, <<"a">> }, l \in Links }

\* the link of the post with the id i
PostLink(i) == Link(Attr(<<"/", "r", "/", "f", "o", "o", "/", "c", "o", "m", "m", "e", "n", "t", "s", "/">> \o i \o <<"/", "t", "i", "t", "l", "e", "/">>), BaseText)

\* the elements pages of more than one element are made of: each is a post
\* of its own, and a page holds an element once
PoolElements ==
    { OldBase,
      [OldBase EXCEPT !.id = NoAttr, !.fullname = NoAttr, !.link = PostLink(<<"a", "b", "c", "1", "2", "4">>)],
      [OldBase EXCEPT !.id = NoAttr, !.fullname = NoAttr, !.link = PostLink(<<"a", "b", "c", "1", "2", "5">>)],
      [OldBase EXCEPT !.classes = { <<"t", "h", "i", "n", "g">>, <<"s", "t", "i", "c", "k", "i", "e", "d">> },
                      !.id = Attr(<<"t", "h", "i", "n", "g", "_", "t", "3", "_", "a", "b", "c", "1", "2", "6">>),
                      !.fullname = Attr(<<"t", "3", "_", "a", "b", "c", "1", "2", "6">>),
                      !.link = PostLink(<<"a", "b", "c", "1", "2", "6">>)],
      [NewBase EXCEPT !.id = Attr(<<"t", "3", "_", "a", "b", "c", "1", "2", "7">>), !.link = PostLink(<<"a", "b", "c", "1", "2", "7">>)],
      [NewBase EXCEPT !.id = NoAttr, !.link = PostLink(<<"A", "B", "C">>)],
      [NewBase EXCEPT !.id = NoAttr, !.link = PostLink(<<"X", "Y", "Z">>)],
      [NewBase EXCEPT !.classes = { <<"P", "o", "s", "t">>, <<"s", "t", "i", "c", "k", "i", "e", "d">> },
                      !.id = Attr(<<"t", "3", "_", "a", "b", "c", "1", "2", "8">>),
                      !.link = PostLink(<<"a", "b", "c", "1", "2", "8">>)],
      [NewBase EXCEPT !.tag = <<"a">>, !.classes = {}, !.id = NoAttr,
                      !.link = PostLink(<<"a", "b", "c", "1", "2", "9">>)],
      [NewBase EXCEPT !.tag = <<"a">>, !.classes = {}, !.id = NoAttr,
                      !.link = PostLink(<<"Q", "R", "S">>)] }

Pages ==
    { <<>> } \cup
    { <<e>> : e \in OldElements \cup NewElements } \cup
    UNION { { pg \in [1..n -> PoolElements] :
                 \A i, j \in 1..n : i # j => pg[i] # pg[j] } : n \in 2..MaxPosts }

-----------------------------------------------------------------------------
(* The parsers applied to a page *)

\* a page has come back for a listing; use_old_reddit is either way
ParseInit ==
    /\ ScraperInit
    /\ file = MissingFile
    /\ config.maxRetries = MaxCfgRetries
    /\ useOld \in BOOLEAN
    /\ page \in Pages
    /\ stage = "page"
    /\ records = <<>>
    /\ NoAssembly
    /\ NoRequest
    /\ NoConversion

\* threads = self._parse_old_reddit(soup, subreddit_name)
ParseOld ==
    /\ stage = "page"
    /\ useOld
    /\ records' = ParseOldReddit(page, config)
    /\ stage' = "parsed"
    /\ UNCHANGED <<scraperVars, assembleVars, requestVars, convertVars, useOld, page>>

\* threads = self._parse_new_reddit(soup, subreddit_name)
ParseNew ==
    /\ stage = "page"
    /\ ~useOld
    /\ records' = ParseNewReddit(page, config)
    /\ stage' = "parsed"
    /\ UNCHANGED <<scraperVars, assembleVars, requestVars, convertVars, useOld, page>>

ParseNext ==
    \/ ParseOld
    \/ ParseNew

ParseSpec == ParseInit /\ [][ParseNext]_vars

-----------------------------------------------------------------------------
(* scrape_subreddits and search_keyword_threads: the assembly of the result *)

\* records of all listings of one operation
MaxRecords == 3

\* the variables the assembly leaves alone
assembleFrame ==
    <<stopAt, config, diskVars, jar, fetchVars, parseVars, requestVars, convertVars>>

\* thread_data as a parser builds it for the element at position pos of the
\* listing of the sub-th subreddit (or keyword); search_keyword 0: no such key
ThreadData(sub, pos, score) ==
    [id |-> DecString(pos), title |-> <<"t">> \o DecString(pos),
     subreddit |-> sub, score |-> score, num_comments |-> 0,
     permalink |-> Origin \o <<"/">> \o DecString(pos), selftext |-> "",
     top_comments |-> <<>>, search_keyword |-> 0]

\* the lists a parser can return for a listing of n elements
Listings(sub, n) ==
    { [i \in 1..n |-> ThreadData(sub, i, sc[i])] : sc \in [1..n -> ThreadScores] }

\* comment counts on either side of the threshold
CommentCounts == {MinimumComments - 1, MinimumComments}

\* what a thread page gives: selftext, comment count, comments
DetailPages ==
    [selftext : {"body"}, num_comments : CommentCounts,
     top_comments : {<<"comment_0">>}]

\* the assignment of _fetch_thread_details at which an exception is raised
\* in the try block, "none": no exception
RaisePoints == {"selftext", "num_comments", "top_comments", "none"}

\* variant: _fetch_thread_details has no except clause
DetailExceptCatches_Nothing(r) == FALSE

\* `except Exception` around the parsing of the thread page
DetailExceptCatches(r) == TRUE

\* _fetch_thread_details(thread_data): the dictionary is updated in place,
\* up to the statement that raises
FetchThreadDetails(td, got, pg, r) ==
    IF ~got \/ r = "selftext" THEN td
    ELSE IF r = "num_comments" THEN [td EXCEPT !.selftext = pg.selftext]
    ELSE IF r = "top_comments"
         THEN [td EXCEPT !.selftext = pg.selftext,
                         !.num_comments = pg.num_comments]
    ELSE [td EXCEPT !.selftext = pg.selftext,
                    !.num_comments = pg.num_comments,
                    !.top_comments = pg.top_comments]

\* thread["search_keyword"] = keyword, in search_keyword_threads only
Keyworded(o, td, k) == IF o = "search" THEN [td EXCEPT !.search_keyword = k] ELSE td

\* `if i > 0: time.sleep(...)` of _scrape_without_api; the loop of
\* search_keyword_threads has no sleep
SleepsBeforeDetail(o, i) == o = "scrape" /\ i > 0

\* variant: only the score filter
FilterThreads_ScoreOnly(rows, cfg) ==
    LET ByScore(r) == r.score >= cfg.minimum_score
    IN  SelectSeq(rows, ByScore)

\* _filter_threads: the rows with score >= minimum_score, of these the rows
\* with num_comments >= minimum_comments
FilterThreads(rows, cfg) ==
    LET ByScore(r) == r.score >= cfg.minimum_score
        ByComments(r) == r.num_comments >= cfg.minimum_comments
    IN  SelectSeq(SelectSeq(rows, ByScore), ByComments)

\* variant: the new threads are put in front
Extend_Front(all, th) == th \o all

\* all_threads.extend(threads)
Extend(all, th) == all \o th

\* the scraper is constructed without a cookie file; nothing is assembled
AssembleInit ==
    /\ ScraperInit
    /\ file = MissingFile
    /\ config.maxRetries = MaxCfgRetries
    /\ NoParse
    /\ NoAssembly
    /\ NoRequest
    /\ NoConversion

\* entry of scrape_subreddits / search_keyword_threads: all_threads = []
StartAssembly(o) ==
    /\ pc = "ready"
    /\ op' = o
    /\ \E n \in 1..MaxSubs : total' = n
    /\ idx' = 1
    /\ collected' = FALSE
    /\ threads' = <<>>
    /\ ti' = 0
    /\ allThreads' = <<>>
    /\ frame' = <<>>
    /\ events' = <<>>
    /\ pc' = "listing"
    /\ UNCHANGED assembleFrame

AssembleSubreddits == StartAssembly("scrape")

AssembleKeywords == StartAssembly("search")

\* the listing of the idx-th subreddit or keyword: _make_request returned
\* None (no threads), or the parser returned its list
GetListing ==
    /\ pc = "listing"
    /\ \E got \in BOOLEAN :
          \E n \in (IF got THEN 0..(MaxRecords - Len(allThreads)) ELSE {0}) :
             \E th \in Listings(idx, n) : threads' = th
    /\ ti' = 0
    /\ events' = <<>>
    /\ pc' = "threads"
    /\ UNCHANGED <<assembleFrame, op, total, idx, collected, allThreads, frame>>

\* one iteration of the loop over threads: the details of a thread with
\* score >= minimum_score are fetched; an exception that leaves
\* _fetch_thread_details ends the loop in the except clause of the caller
\* (search_keyword_threads then skips all_threads.extend)
ThreadIteration ==
    /\ pc = "threads"
    /\ ti < Len(threads)
    /\ LET td == Keyworded(op, threads[ti + 1], idx)
       IN  IF ~Qualifies(td.score, config)
           THEN /\ threads' = [threads EXCEPT ![ti + 1] = td]
                /\ ti' = ti + 1
                /\ events' = events
           ELSE \E got \in BOOLEAN, pg \in DetailPages, r \in RaisePoints :
                   /\ events' = events
                         \o (IF SleepsBeforeDetail(op, ti) THEN <<"sleep">> ELSE <<>>)
                         \o <<"detail">>
                   /\ IF got /\ r # "none" /\ ~DetailExceptCatches(r)
                      THEN IF op = "search"
                           THEN threads' = <<>> /\ ti' = 0
                           ELSE /\ threads' = [threads EXCEPT ![ti + 1] =
                                                  FetchThreadDetails(td, got, pg, r)]
                                /\ ti' = Len(threads)
                      ELSE /\ threads' = [threads EXCEPT ![ti + 1] =
                                             FetchThreadDetails(td, got, pg, r)]
                           /\ ti' = ti + 1
    /\ UNCHANGED <<assembleFrame, pc, op, total, idx, collected, allThreads, frame>>

\* the loop over threads is over: all_threads.extend(threads), the sleep of
\* the operation, then the next subreddit or keyword
ExtendAll ==
    /\ pc = "threads"
    /\ ti = Len(threads)
    /\ allThreads' = Extend(allThreads, threads)
    /\ collected' = (allThreads' # <<>>)
    /\ threads' = <<>>
    /\ ti' = 0
    /\ IF idx < total
       THEN idx' = idx + 1 /\ pc' = "listing"
       ELSE idx' = idx /\ pc' = "frame"
    /\ UNCHANGED <<assembleFrame, op, total, frame, events>>

\* `if all_threads`: the filtered frame is returned (scrape_subreddits writes
\* it to new files of the output directory before), else an empty frame
ReturnFrame ==
    /\ pc = "frame"
    /\ frame' = IF allThreads # <<>> THEN FilterThreads(allThreads, config) ELSE <<>>
    /\ pc' = "ready"
    /\ UNCHANGED <<assembleFrame, op, total, idx, collected, threads, ti,
                   allThreads, events>>

AssembleNext ==
    \/ Construct
    \/ AssembleSubreddits
    \/ AssembleKeywords
    \/ GetListing
    \/ ThreadIteration
    \/ ExtendAll
    \/ ReturnFrame

AssembleSpec == AssembleInit /\ [][AssembleNext]_vars

-----------------------------------------------------------------------------
(* _make_request: the headers it sends and the response it classifies *)

\* two of the user agents of _get_random_user_agent
UserAgents == {"Chrome/91 Windows", "Firefox/90 Windows"}

\* two of the Accept-Language values of _get_browser_headers
Languages == {"en-US,en;q=0.9", "en-GB,en;q=0.9,en-US;q=0.8"}

\* what one call of _get_browser_headers can return
HeaderDraws == { Headers(ua, l) : ua \in UserAgents, l \in Languages }

\* variant: the headers are built inside the loop, once per attempt
LoopHeaders_PerAttempt(h, n) == { [headers |-> f, draws |-> n + 1] : f \in HeaderDraws }

\* the headers of an attempt and the number of draws after it: the loop body
\* passes the local `headers` to session.get and never assigns it
LoopHeaders(h, n) == { [headers |-> h, draws |-> n] }

ListingUrl == <<"h", "t", "t", "p", "s", ":", "/", "/", "o", "l", "d", ".", "r", "e", "d", "d",
    "i", "t", ".", "c", "o", "m", "/", "r", "/", "T", "I", "F", "U", "/", "t", "o", "p", "/",
        "?", "t", "=", "m", "o", "n", "t", "h">>

HeavyLoadUrl == <<"h", "t", "t", "p", "s", ":", "/", "/", "w", "w", "w", ".", "r", "e", "d",
    "d", "i", "t", ".", "c", "o", "m", "/", "s", "t", "a", "t", "i", "c", "/", "h", "e", "a",
        "v", "y", "-", "l", "o", "a", "d", ".", "h", "t", "m", "l">>

\* "reddit.com/static/heavy-load" in response.url
IsHeavyLoad(url) == HasSub(url, <<"r", "e", "d", "d", "i", "t", ".", "c", "o", "m", "/", "s",
    "t", "a", "t", "i", "c", "/", "h", "e", "a", "v", "y", "-", "l", "o", "a", "d">>)

\* title = soup.title.text if soup.title else "No title"
TitleText(t) == IF t.has THEN t.val ELSE <<"N", "o", " ", "t", "i", "t", "l", "e">>

ChallengeTerms == {<<"c", "a", "p", "t", "c", "h", "a">>, <<"h", "u", "m", "a", "n", "?">>,
    <<"v", "e", "r", "i", "f", "y">>, <<"l", "o", "g", " ", "i", "n">>, <<"s", "i", "g", "n",
        " ", "i", "n">>}

\* any(term in title.lower() for term in [...])
IsChallenge(title) == \E term \in ChallengeTerms : HasSub(Lower(title), term)

\* is_reddit_page
IsRedditPage(title, cfg) ==
    \/ HasSub(Lower(title), <<"r", "e", "d", "d", "i", "t">>)
    \/ HasSub(title, <<" ", ":", " ">>)
    \/ \E i \in DOMAIN cfg.subreddits :
          HasSub(Lower(title), Lower(cfg.subreddits[i]))

\* what the tests of the loop body read of a response
Flags(r, cfg) ==
    [exc |-> r.exc, status |-> r.status, heavy |-> IsHeavyLoad(r.url),
     challenge |-> IsChallenge(TitleText(r.title)),
     reddit |-> IsRedditPage(TitleText(r.title), cfg)]

Titles ==
    {<<"L", "o", "g", " ", "i", "n", " ", "t", "o", " ", "R", "e", "d", "d", "i", "t">>, <<"r",
        "e", "d", "d", "i", "t", ":", " ", "t", "h", "e", " ", "f", "r", "o", "n", "t", " ",
            "p", "a", "g", "e">>, <<"R", "e", "d", "d", "i", "t">>,
     <<"t", "o", "p", " ", "s", "c", "o", "r", "i", "n", "g", " ", "l", "i", "n", "k", "s",
         " ", ":", " ", "T", "I", "F", "U">>, <<"t", "i", "f", "u">>, <<"T", "o", "p", " ",
             "p", "o", "s", "t", "s">>, <<"a", " ", ":", " ", "b">>,
     <<"E", "x", "a", "m", "p", "l", "e", " ", "D", "o", "m", "a", "i", "n">>, <<"A", "r", "e",
         " ", "y", "o", "u", " ", "h", "u", "m", "a", "n", "?">>, <<"V", "e", "r", "i", "f",
             "y">>, <<"S", "i", "g", "n", " ", "I", "n">>,
     <<"C", "A", "P", "T", "C", "H", "A", " ", ":", " ", "r", "e", "d", "d", "i", "t">>, <<"l",
         "o", "g", " ", "i", "n", " ", ":", " ", "t", "i", "f", "u">>, <<>>}

\* what session.get can produce, with status, final URL and title spelled out
FetchResponses ==
    { Response(TRUE, 0, <<>>, NoAttr) }
    \cup { Response(FALSE, st, u, t) :
             st \in {200, 503}, u \in {ListingUrl, HeavyLoadUrl},
             t \in {NoAttr} \cup { Attr(x) : x \in Titles } }

\* the scraper is constructed without a cookie file; no request yet
FetchInit ==
    /\ ScraperInit
    /\ file = MissingFile
    /\ config.maxRetries = MaxCfgRetries
    /\ NoParse
    /\ NoAssembly
    /\ NoRequest
    /\ NoConversion

\* _make_request(url, n): the headers are built, then the loop is entered
CallMakeRequest ==
    /\ pc = "ready"
    /\ \E n \in 0..MaxDirectRetries : StartFetch("direct", n)
    /\ \E h \in HeaderDraws : headers' = h
    /\ draws' = 1
    /\ sent' = NoHeaders
    /\ response' = NoResponse
    /\ op' = "direct"
    /\ UNCHANGED <<stopAt, config, parseVars, assembleVars, convertVars, diskVars,
                   jar, total, idx, collected, threads, ti>>

\* one iteration of the loop: the delay before a retry, session.get with
\* the headers, _save_cookies, the tests of the response with their sleeps,
\* then `return soup`, the next attempt, or `return None`
Attempt ==
    /\ pc = "send"
    /\ \E lh \in LoopHeaders(headers, draws) :
          /\ headers' = lh.headers
          /\ draws' = lh.draws
          /\ sent' = lh.headers
    /\ \E r \in FetchResponses :
          /\ response' = r
          /\ outcome' = Classify(Flags(r, config))
    /\ requests' = requests + 1
    /\ preDelay' = IF attempt > 0 THEN <<RequestDelay>> ELSE <<>>
    /\ wdRetried' = (wdRetried \/ outcome = "wrong_domain")
    /\ allNet' = (allNet /\ response'.exc)
    /\ IF ~response'.exc /\ SavesAfterResponse(outcome')
       THEN SaveCookies
       ELSE savedThis' = FALSE /\ UNCHANGED diskVars
    /\ waits' = OutcomeWaits(outcome', attempt)
    /\ IF Returns(outcome')
       THEN /\ pc' = "returned"
            /\ result' = Soup(requests + 1)
            /\ attempt' = attempt
       ELSE NextAttempt
    /\ UNCHANGED <<stopAt, config, parseVars, assembleVars, convertVars, jar,
                   opVars, fetchKind, maxRetries, cancelled>>

FetchNext ==
    \/ Construct
    \/ CallMakeRequest
    \/ Attempt
    \/ DirectReturns

FetchSpec == FetchInit /\ [][FetchNext]_vars

-----------------------------------------------------------------------------
(* RedditToShortsConverter.convert_thread_to_script (src/reddit_to_shorts.py) *)

\* the step between the lengths of the generated texts
LengthStep == 150

\* the longest generated text, in steps
MaxLengthSteps == 2

\* the frame of the conversion
convertFrame == <<scraperVars, assembleVars, requestVars, useOld, page, records>>

Abs(n) == IF n < 0 THEN 0 - n ELSE n

\* s[:k]: a negative k counts from the end
Slice(s, k) ==
    IF k >= 0 THEN SubSeq(s, 1, Min(k, Len(s))) ELSE SubSeq(s, 1, Len(s) + k)

\* the magnitudes below 1290 at which the double product r * 0.7 falls
\* just short of the whole number 7r/10
FloatShort ==
    {90, 170, 180, 330, 340, 350, 360} \cup { 10 * k : k \in 65..73 }

\* int(r * 0.7) for |r| < 1290: truncation toward zero of the double product
SeventyPercent(r) ==
    LET t == (7 * Abs(r)) \div 10
        m == IF Abs(r) \in FloatShort THEN t - 1 ELSE t
    IN  IF r < 0 THEN 0 - m ELSE m

Newlines == <<"\n", "\n">>

Ellipsis == <<".", ".", ".">>

\* f"{hook}\n\n{main_content}\n\n{pattern_interrupt}\n\n{conclusion}\n\n{call_to_action}"
Combine(hook, main, interrupt, conclusion, cta) ==
    hook \o Newlines \o main \o Newlines \o interrupt \o Newlines
         \o conclusion \o Newlines \o cta

\* main_content[:main_content_length] + "..."
Trim(s, k) == Slice(s, k) \o Ellipsis

\* script_text: the components combined, and trimmed when that is longer
\* than max_script_length
ScriptText(p, cfg) ==
    LET full == Combine(p.hook, p.main_content, p.pattern_interrupt,
                        p.conclusion, p.call_to_action)
        max_length == cfg.max_script_length
        remaining_length ==
            max_length - Len(p.hook) - Len(p.pattern_interrupt)
                       - Len(p.call_to_action) - 8
        main_content_length == SeventyPercent(remaining_length)
        conclusion_length == remaining_length - main_content_length
    IN  IF Len(full) > max_length
        THEN Combine(p.hook, Trim(p.main_content, main_content_length),
                     p.pattern_interrupt,
                     Trim(p.conclusion, conclusion_length), p.call_to_action)
        ELSE full

AttentionWords ==
    {<<"s", "h", "o", "c", "k", "i", "n", "g">>, <<"u", "n", "b", "e", "l", "i", "e", "v", "a", "b", "l", "e">>, <<"s", "u", "r", "p", "r", "i", "s", "i", "n", "g">>, <<"n", "e", "v", "e", "r">>, <<"a", "l", "w", "a", "y", "s">>,
     <<"s", "e", "c", "r", "e", "t">>, <<"h", "i", "d", "d", "e", "n">>, <<"a", "m", "a", "z", "i", "n", "g">>, <<"i", "n", "c", "r", "e", "d", "i", "b", "l", "e">>, <<"m", "i", "n", "d", "-", "b", "l", "o", "w", "i", "n", "g">>}

\* min(reddit_score / 1000, 5) * 2.5, in 1/4000
EngagementPoints(score) == Min(50000, 10 * score)

\* min(num_comments / 100, 5) * 2.5, in 1/4000
CommentPoints(n) == Min(50000, 100 * n)

\* the points for the length of the script, in 1/4000
LengthPoints(count) ==
    IF 300 <= count /\ count <= 500 THEN 10000
    ELSE IF (200 <= count /\ count < 300) \/ (500 < count /\ count <= 600)
         THEN 6000
         ELSE 2000

\* min(matches, 5) * 0.5, in 1/4000
AttentionPoints(text) ==
    LET lower == Lower(text)
        matches == Cardinality({ w \in AttentionWords : HasSub(lower, w) })
    IN  Min(matches, 5) * 2000

\* 2.5 when '?' is in script_text[:100], in 1/4000
QuestionPoints(text) ==
    IF \E i \in 1..Min(100, Len(text)) : text[i] = "?" THEN 10000 ELSE 0

\* round(score, 2) of a score in 1/4000, in 1/100: ties go to the even digit
RoundHundredths(u) ==
    LET q == u \div 40
        r == u % 40
    IN  IF r < 20 THEN q
        ELSE IF r > 20 THEN q + 1
        ELSE IF q % 2 = 0 THEN q ELSE q + 1

\* _calculate_virality_score(thread_data, script_text), in 1/100; compound
\* is sentiment['compound'] of the script in 1/10000
ViralityScore(th, text, compound) ==
    RoundHundredths(EngagementPoints(th.score) + CommentPoints(th.num_comments)
                    + LengthPoints(Len(text)) + Abs(compound)
                    + AttentionPoints(text) + QuestionPoints(text))

\* n characters of running text
Filler(n) == [i \in 1..n |-> "x"]

\* what _generate_main_content and _generate_conclusion return
Contents == { Filler(k * LengthStep) : k \in 0..MaxLengthSteps }

\* what _generate_hook returns
Hooks ==
    {<<"L", "o", "o", "k">>, <<"W", "h", "a", "t", " ", "h", "a", "p", "p", "e", "n", "e", "d", "?">>,
     <<"S", "h", "o", "c", "k", "i", "n", "g", ",", " ", "a", "m", "a", "z", "i", "n", "g", ",", " ", "i", "n", "c", "r", "e", "d", "i", "b", "l", "e", ":", " ", "n", "e", "v", "e", "r", ",", " ", "a", "l", "w", "a", "y", "s", ",", " ", "a", " ", "h", "i", "d", "d", "e", "n", " ", "s", "e", "c", "r", "e", "t">>}

\* what _get_pattern_interrupt returns
Interrupts == {<<"B", "u", "t", " ", "w", "a", "i", "t">>}

\* what _get_call_to_action returns
CallsToAction == {<<"F", "o", "l", "l", "o", "w">>, <<"D", "o", " ", "y", "o", "u", " ", "a", "g", "r", "e", "e", "?">>}

\* sentiment['compound'] of the sentiment analyzer, in 1/10000
Compounds == {0, 0 - 4215}

\* config["max_script_length"]: the default and a short one
MaxScriptLengths == {60, 500}

\* the threads given to the converter; one lacks title or selftext
ConvertThreads ==
    { ThreadOf(TRUE, s, n) : s \in {0 - 2000, 1000, 6000}, n \in {15, 600} }
        \cup {NoThread}

\* a converter, a thread and the components generated for it
ConvertInit ==
    /\ ScraperInit
    /\ file = MissingFile
    /\ config.maxRetries = MaxCfgRetries
    /\ NoAssembly
    /\ NoRequest
    /\ useOld = TRUE
    /\ page = <<>>
    /\ records = <<>>
    /\ stage = "thread"
    /\ shortsConfig \in [max_script_length : MaxScriptLengths]
    /\ thread \in ConvertThreads
    /\ parts \in { Parts(h, m, i, c, a, s) :
                     h \in Hooks, m \in Contents, i \in Interrupts,
                     c \in Contents, a \in CallsToAction, s \in Compounds }
    /\ script = NoScript

\* convert_thread_to_script of a thread without title or selftext: None
SkipThread ==
    /\ stage = "thread"
    /\ ~thread.complete
    /\ stage' = "script"
    /\ script' = NoScript
    /\ UNCHANGED <<convertFrame, shortsConfig, thread, parts>>

\* convert_thread_to_script: the script is combined, trimmed and scored
ConvertThread ==
    /\ stage = "thread"
    /\ thread.complete
    /\ stage' = "script"
    /\ script' = LET text == ScriptText(parts, shortsConfig)
                 IN  Script(TRUE, text, ViralityScore(thread, text, parts.compound))
    /\ UNCHANGED <<convertFrame, shortsConfig, thread, parts>>

ConvertNext == SkipThread \/ ConvertThread

ConvertSpec == ConvertInit /\ [][ConvertNext]_vars

-----------------------------------------------------------------------------
(* Properties of the request executor and the session store *)

ListingKinds == {"listing", "detail", "search"}

\* C1: one call of _make_request with max_retries = N issues at most N
\* session.get requests, whatever the outcomes of its attempts.
C1_AtMostMaxRetries == requests <= maxRetries

C1_Witness ==
    /\ pc = "returned"
    /\ fetchKind = "direct"
    /\ maxRetries = MaxDirectRetries
    /\ requests = maxRetries
    /\ result = NoneResult

\* C2: a listing fetch with max_retries = 3 whose attempts all end in a
\* network failure stops after exactly 3 requests with None, no exception
\* leaves _make_request, and scrape_subreddits goes on with the next subreddit
\* (or ends normally after the last one).
C2_ExhaustedListing ==
    [][ /\ stopAt' # "raised"
        /\ (pc = "returned" /\ fetchKind = "listing" /\ op = "scrape" /\ allNet)
             => /\ maxRetries = 3
                /\ requests = 3
                /\ result = NoneResult
                /\ (pc' # "stopped" /\ idx < total)
                     => (idx' = idx + 1 /\ fetchKind' = "listing"
                           /\ pc' = "send" /\ requests' = 0)
                /\ (pc' # "stopped" /\ idx >= total) => pc' = "ready" ]_vars

C2_Witness ==
    /\ pc = "returned"
    /\ fetchKind = "listing"
    /\ op = "scrape"
    /\ allNet
    /\ requests = 3
    /\ result = NoneResult
    /\ idx < total

\* C3: a request is issued only at the loop head, as the first attempt or
\* after an attempt that was not a success, and only while attempt <
\* max_retries; a success returns the document of that attempt at once; when
\* the bound is reached the fetch returns None; after the return no request
\* of that fetch follows.
C3_OnlyRetryableRetries ==
    [][ /\ (requests' = requests + 1)
             => /\ pc = "send"
                /\ attempt < maxRetries
                /\ (requests = 0 \/ outcome \in
                      {"network", "http_error", "heavy_load",
                       "captcha_login", "wrong_domain"})
        /\ (pc = "got" /\ outcome = "success" /\ pc' # "stopped")
             => (pc' = "returned" /\ result' = Soup(requests)
                   /\ requests' = requests)
        /\ (pc \in {"send", "got"} /\ outcome' # "success"
              /\ attempt + 1 >= maxRetries /\ pc' \notin {"stopped", "got"}
              /\ cancelled' = cancelled)
             => (pc' = "returned" /\ result' = NoneResult)
        /\ (pc = "returned") => (requests' = requests \/ requests' = 0) ]_vars

C3_Witness ==
    /\ pc = "returned"
    /\ result = Soup(2)
    /\ requests = 2
    /\ maxRetries = 3

\* C4: after an attempt classified captcha_login or heavy_load the sleep of
\* that iteration is the anomaly window alone (30-60 s, 20-30 s), the
\* exponential backoff is not slept, exactly one attempt is consumed, and the
\* request is retried if attempts remain.
C4_AnomalyWait ==
    [][ (pc = "got" /\ outcome \in {"captcha_login", "heavy_load"}
           /\ pc' # "stopped")
          => /\ waits' = IF outcome = "captcha_login"
                         THEN <<Window(30, 60)>>
                         ELSE <<Window(20, 30)>>
             /\ \A i \in 1..Len(waits') :
                   waits'[i] # Window(Pow2(attempt) + 5, Pow2(attempt) + 15)
             /\ attempt' = attempt + 1
             /\ requests' = requests
             /\ (attempt + 1 < maxRetries) => pc' = "send"
             /\ (attempt + 1 >= maxRetries)
                  => (pc' = "returned" /\ result' = NoneResult) ]_vars

C4_Witness ==
    /\ pc = "send"
    /\ outcome = "captcha_login"
    /\ waits = <<Window(30, 60)>>
    /\ attempt = 1
    /\ requests = 1

\* C5 as stated: after every request attempt of a fetch, whatever its
\* outcome, _save_cookies has run.
C5_SavedAfterEveryAttempt ==
    (pc \in {"send", "returned"} /\ requests > 0) => savedThis

\* C5 as amended: after a request attempt, _save_cookies has run, and the
\* file holds the jar's cookies, exactly when session.get returned a response
\* (whatever its status or classification); it has not run when session.get
\* raised.
C5_SavedAfterEveryResponse ==
    (pc \in {"send", "returned"} /\ requests > 0)
      => /\ savedThis <=> (outcome # "network")
         /\ savedThis => (file = JsonFile(JarToList(jar))
                            /\ lastSaved = JarToList(jar))

C5_Witness ==
    /\ pc = "send"
    /\ outcome = "http_error"
    /\ savedThis
    /\ Len(jar) = 1
    /\ file = JsonFile(JarToList(jar))

\* C6: if the process stops during _save_cookies, the cookie file holds the
\* complete previous content or the complete new list, never an empty or
\* partly written file.
C6_AtomicSave ==
    (stopAt = "saving") => (file = fileBefore \/ file = JsonFile(lastSaved))

\* C7: with a session file that is missing, not valid JSON, or holding a
\* record without name, value or domain, construction completes without an
\* exception and the session holds no cookie at all.
FileUnusable(f) ==
    \/ f.kind \in {"missing", "torn"}
    \/ \E i \in 1..Len(f.recs) :
          Absent \in {f.recs[i].name, f.recs[i].value, f.recs[i].domain}

C7_BadFileStartsEmpty ==
    [][ (pc = "stopped" /\ pc' # "stopped" /\ FileUnusable(file))
          => (pc' = "ready" /\ jar' = <<>> /\ stopAt' # "raised"
                /\ file' = file) ]_vars

C7_Witness ==
    /\ pc = "ready"
    /\ op = "constructed"
    /\ file.kind = "json"
    /\ Len(file.recs) = 2
    /\ file.recs[1] = GoodRecord
    /\ file.recs[2].name = Absent
    /\ jar = <<>>

\* C8: a scraper constructed on the file that _save_cookies last wrote holds,
\* after _load_cookies, exactly the saved cookies (name, value, domain, path).
C8_RoundTrip ==
    (pc = "ready" /\ op = "constructed" /\ file = JsonFile(lastSaved))
      => JarToList(jar) = lastSaved

\* C9 as stated: a wrong_domain attempt is retried at most once; when the
\* retry is wrong_domain again the fetch ends.
C9_WrongDomainRetriedOnce ==
    ~(pc = "send" /\ wdRetried /\ outcome = "wrong_domain")

\* C9 as amended: a wrong_domain attempt is handled like any retryable
\* outcome, however many came before: 15-25 s, then the exponential backoff,
\* one attempt consumed, and a retry while attempts remain; the fetch fails
\* only when max_retries attempts are used.
C9_WrongDomainRetriedToBound ==
    [][ (pc = "got" /\ outcome = "wrong_domain" /\ pc' # "stopped")
          => /\ waits' = <<Window(15, 25),
                           Window(Pow2(attempt) + 5, Pow2(attempt) + 15)>>
             /\ attempt' = attempt + 1
             /\ (attempt + 1 < maxRetries) => pc' = "send"
             /\ (attempt + 1 >= maxRetries)
                  => (pc' = "returned" /\ result' = NoneResult) ]_vars

C9_Witness ==
    /\ pc = "returned"
    /\ fetchKind = "listing"
    /\ wdRetried
    /\ outcome = "wrong_domain"
    /\ requests = 3
    /\ result = NoneResult

-----------------------------------------------------------------------------
(* Properties of the public operations and the thread loop *)

\* C11 as stated: once the caller has signalled cancellation at a retry
\* boundary, the running _make_request issues no further attempt.
C11_NoAttemptAfterCancel == [][cancelled => requests' <= requests]_vars

\* C11: _make_request reads no cancellation signal: a call that was cancelled
\* at a retry boundary and returns None has still issued all max_retries
\* requests.
C11_CancelNotRead ==
    (cancelled /\ pc = "returned" /\ result = NoneResult) => requests = maxRetries

C11_Witness ==
    /\ cancelled
    /\ pc = "returned"
    /\ result = NoneResult
    /\ maxRetries >= 2
    /\ requests = maxRetries

\* C12: when the listing fetches of a public operation fail and the operation
\* has no thread, the operation returns to its caller; no exception leaves it.
C12_EmptyResultNotRaise ==
    [][ ( /\ pc = "returned"
          /\ fetchKind \in {"listing", "search"}
          /\ result.kind = "None"
          /\ idx = total
          /\ ~collected )
        => stopAt' # "KeyError" ]_vars

\* C20: in _scrape_without_api the thread loop issues a detail request for the
\* next record exactly when that record's score >= minimum_score, it never
\* comes back to a record, and a record below the threshold keeps
\* selftext = "" and top_comments = [].
C20_DetailIffQualifies ==
    [][ ( /\ op \in ScrapeOps
          /\ pc = "parsed" \/ (pc = "returned" /\ fetchKind = "detail")
          /\ pc' # "stopped" )
        => /\ IF fetchKind' = "detail"
              THEN /\ ti' \in (ti + 1)..Len(threads')
                   /\ threads'[ti'].score >= config.minimum_score
                   /\ \A j \in (ti + 1)..(ti' - 1) :
                         threads'[j].score < config.minimum_score
              ELSE \A j \in (ti + 1)..Len(threads) :
                         threads[j].score < config.minimum_score
           /\ \A j \in DOMAIN threads' :
                 threads'[j].score < config.minimum_score
                    => threads'[j].details = NoDetails ]_vars

C20_Witness ==
    /\ op \in ScrapeOps
    /\ pc = "returned"
    /\ fetchKind = "detail"
    /\ result.kind = "soup"
    /\ ti = 2
    /\ threads[1].score < config.minimum_score
    /\ threads[1].details = NoDetails


-----------------------------------------------------------------------------
(* Properties of the listing parsers *)

\* the page is one element that differs from the layout's plain post in its
\* score element only
OnlyScoreVaries ==
    /\ stage = "parsed"
    /\ Len(page) = 1
    /\ page[1] = [(IF useOld THEN OldBase ELSE NewBase) EXCEPT !.score = page[1].score]

HasDigit(s) == \E i \in DOMAIN s : s[i] \in DigitChars

\* digits in groups of three, separated by commas
IsGrouped(w) ==
    /\ Len(w) % 4 # 0
    /\ \A i \in DOMAIN w :
          IF (Len(w) - i) % 4 = 3 THEN w[i] = "," ELSE w[i] \in DigitChars

ScoreSuffix(s) == IF s # <<>> /\ s[Len(s)] \in {"k", "K", "m", "M"} THEN 1 ELSE 0

ScoreBody(s) == SubSeq(s, 1, Len(s) - ScoreSuffix(s))

\* <number>[.<number>][k|m], any case, optional thousands separators
IsScoreForm(s) ==
    LET w == WholePart(ScoreBody(s))
        f == FracPart(ScoreBody(s))
    IN  /\ IsDigits(w) \/ IsGrouped(w)
        /\ HasSub(ScoreBody(s), <<".">>) => IsDigits(f)

\* the number times 1, 1000 or 1,000,000, truncated toward zero
ScoreFormValue(s) ==
    LET w == RemoveChar(WholePart(ScoreBody(s)), ",")
        f == FracPart(ScoreBody(s))
        mult == IF ScoreSuffix(s) = 0 THEN 1
                ELSE IF s[Len(s)] \in {"k", "K"} THEN 1000 ELSE 1000000
    IN  ((DecValue(w) * Pow10(Len(f)) + DecValue(f)) * mult) \div Pow10(Len(f))

\* C13: in both parsers, a score text of the form <number>[.<number>][k|m]
\* (any case, optional thousands separators) is stored as the number times
\* 1, 1000 or 1,000,000, truncated toward zero.
C13_ScoreNormalized ==
    ( /\ OnlyScoreVaries
      /\ page[1].score.present
      /\ page[1].score.title = (IF useOld THEN Attr(<<>>) ELSE NoAttr)
      /\ IsScoreForm(Strip(page[1].score.text))
      /\ Len(records) = 1 )
    => records[1].score = ScoreFormValue(Strip(page[1].score.text))

\* C14: when no numeric score can be had (no score element, no score
\* attribute, a text without a number), the record is still emitted and its
\* score is minimum_score.
C14_FallbackIsMinimum ==
    ( /\ OnlyScoreVaries
      /\ \/ ~page[1].score.present
         \/ /\ ~HasDigit(page[1].score.text)
            /\ ~HasDigit(Get(page[1].score.title, <<>>)) )
    => (Len(records) = 1 /\ records[1].score = config.minimum_score)

\* C15: every record a parser emits has score >= 0 and num_comments >= 0.
C15_NonNegative ==
    stage = "parsed"
    => \A i \in DOMAIN records :
          records[i].score >= 0 /\ records[i].num_comments >= 0

\* the path of a reference that begins with '/': a network-path reference
\* //host/path has the path after its host
PathOf(h) ==
    IF StartsWith(h, <<"/", "/">>)
    THEN LET at == { i \in 3..Len(h) : h[i] = "/" }
         IN  IF at = {} THEN <<>> ELSE SubSeq(h, SetMin(at), Len(h))
    ELSE h

\* the only "//" of u is the one right after the scheme
OneDoubleSlash(u) ==
    \A i \in 1..(Len(u) - 1) :
       (u[i] = "/" /\ u[i + 1] = "/")
          => (i > 1 /\ u[i - 1] = ":" /\ \A m \in 1..(i - 2) : u[m] \notin {":", "/"})

\* C16: a permalink candidate that begins with '/' is emitted as the site
\* origin followed by the path, with no double slash except after the scheme.
C16_PermalinkJoin ==
    ( /\ stage = "parsed"
      /\ Len(page) = 1
      /\ page[1].link.present
      /\ page[1].link.href.has
      /\ StartsWith(page[1].link.href.val, <<"/">>)
      /\ Len(records) = 1 )
    => /\ records[1].permalink = Origin \o PathOf(page[1].link.href.val)
       /\ OneDoubleSlash(records[1].permalink)

\* u contains /comments/<id>/ with a non-empty id
HasPostPath(u) ==
    \E i \in DOMAIN u :
       /\ HasAt(u, i, <<"/", "c", "o", "m", "m", "e", "n", "t", "s", "/">>)
       /\ \E j \in (i + 11)..Len(u) :
             /\ u[j] = "/"
             /\ \A m \in (i + 10)..(j - 1) : u[m] # "/"

\* C17: every emitted permalink is an absolute URL that contains
\* /comments/<id>/; other candidates yield no record.
C17_AbsolutePostLink ==
    stage = "parsed"
    => \A i \in DOMAIN records :
          /\ StartsWith(records[i].permalink, <<"h", "t", "t", "p", "s", ":", "/", "/">>)
                \/ StartsWith(records[i].permalink, <<"h", "t", "t", "p", ":", "/", "/">>)
          /\ HasPostPath(records[i].permalink)

\* C18: a stickied listing element produces no record, whichever parser
\* handles the page.
C18_StickiedExcluded ==
    ( /\ stage = "parsed"
      /\ page # <<>>
      /\ \A i \in DOMAIN page : <<"s", "t", "i", "c", "k", "i", "e", "d">> \in page[i].classes )
    => records = <<>>

\* C19: the ids of the records emitted for a listing are pairwise distinct.
C19_DistinctIds ==
    stage = "parsed"
    => \A i, j \in DOMAIN records : i # j => records[i].id # records[j].id

-----------------------------------------------------------------------------
(* Properties of the assembly of an operation's result *)

\* the fields of a record that come from the listing
ListingFields(td) == <<td.id, td.title, td.subreddit, td.score, td.permalink>>

\* the records of th whose details are to be fetched
Qualifying(th) == { j \in 1..Len(th) : Qualifies(th[j].score, config) }

\* the detail fetches among the events
DetailEvents(ev) == { p \in 1..Len(ev) : ev[p] = "detail" }

\* a record whose detail fetch failed: no page, or an exception before the
\* comments were stored
DetailFailed(td) == Qualifies(td.score, config) /\ td.top_comments = <<>>

\* C21: an iteration of the thread loop, whatever the detail fetch of its
\* record did, keeps every record of the listing with its id, title,
\* subreddit, score and permalink and goes on with the loop; the list is
\* handed to all_threads only after the loop has passed its last record,
\* with one detail fetch done for every record at or above minimum_score.
C21_DetailFailureKeepsRecord ==
    [][ /\ (pc = "threads" /\ ti < Len(threads) /\ <<ti, threads>>' # <<ti, threads>>)
             => /\ pc' = "threads"
                /\ ti' = ti + 1
                /\ Len(threads') = Len(threads)
                /\ \A j \in 1..Len(threads) :
                      ListingFields(threads'[j]) = ListingFields(threads[j])
        /\ (pc = "threads" /\ allThreads' # allThreads)
             => /\ ti = Len(threads)
                /\ allThreads' = allThreads \o threads
                /\ Cardinality(DetailEvents(events)) = Cardinality(Qualifying(threads))
      ]_vars

\* the detail fetch of the first record raised after selftext was stored, the
\* second record has got its details, and both are in all_threads
C21_Witness ==
    /\ op = "scrape"
    /\ Len(allThreads) = 2
    /\ allThreads[1].selftext = "body"
    /\ DetailFailed(allThreads[1])
    /\ allThreads[2].top_comments # <<>>

\* row a stands before row b in the source: an earlier subreddit of the
\* caller's list, or an earlier element of the same listing
Precedes(a, b) ==
    \/ a.subreddit < b.subreddit
    \/ a.subreddit = b.subreddit /\ DecValue(a.id) < DecValue(b.id)

\* consecutive rows are in source order
InSourceOrder(rows) == \A i \in 1..(Len(rows) - 1) : Precedes(rows[i], rows[i + 1])

\* C22: scrape_subreddits fetches the listings in the order of the caller's
\* list (the first, then one after the other), the records of a listing are
\* those of its subreddit in the order of the page, and the rows of the frame
\* it returns are in source order: subreddit by subreddit in the caller's
\* order, and inside a subreddit in the order of the listing.
C22_SourceOrder ==
    [][ (op' = "scrape")
          => /\ (pc = "listing" /\ pc' = "threads")
                  => /\ \A k \in 1..Len(allThreads) : allThreads[k].subreddit < idx
                     /\ \A j \in 1..Len(threads') :
                           threads'[j].subreddit = idx /\ DecValue(threads'[j].id) = j
             /\ (idx' # idx) => (idx' = idx + 1 \/ (pc = "ready" /\ idx' = 1))
             /\ InSourceOrder(allThreads')
             /\ InSourceOrder(frame')
      ]_vars

\* a frame of three rows: two of the first subreddit, one of the second
C22_Witness ==
    /\ op = "scrape"
    /\ pc = "ready"
    /\ Len(frame) = 3
    /\ frame[2].subreddit = 1
    /\ frame[3].subreddit = 2

\* C27: in the thread loop of one subreddit (or keyword) the first detail
\* fetch is not preceded by a sleep and every later detail fetch is preceded
\* by one, whatever the scores of the records are.
C27_DelayBetweenDetails ==
    \A p \in DetailEvents(events) :
       IF \E q \in DetailEvents(events) : q < p
       THEN p > 1 /\ events[p - 1] = "sleep"
       ELSE p = 1

\* the rows of all_threads, as a set
AllRows == { allThreads[k] : k \in 1..Len(allThreads) }

\* the rows of the frame, as a set
FrameRows == { frame[k] : k \in 1..Len(frame) }

\* C28: when scrape_subreddits or search_keyword_threads has returned, the
\* rows of its frame are exactly the records of all_threads with
\* score >= minimum_score and num_comments >= minimum_comments; a record
\* that fails a threshold, such as one whose detail fetch failed and left
\* num_comments at 0, is not a row.
C28_FrameMeetsThresholds ==
    (pc = "ready" /\ op \in {"scrape", "search"})
       => /\ \A r \in FrameRows :
                /\ r.score >= config.minimum_score
                /\ r.num_comments >= config.minimum_comments
          /\ \A r \in AllRows :
                (r.score >= config.minimum_score
                    /\ r.num_comments >= config.minimum_comments)
                   => r \in FrameRows
          /\ FrameRows \subseteq AllRows

\* search_keyword_threads has returned a frame with a row while a record
\* whose detail fetch failed, and one below minimum_score, were left out
C28_Witness ==
    /\ pc = "ready"
    /\ op = "search"
    /\ Len(frame) = 1
    /\ \E r \in AllRows : DetailFailed(r) /\ r.num_comments = 0 /\ r \notin FrameRows
    /\ \E r \in AllRows : r.score < config.minimum_score

-----------------------------------------------------------------------------
(* Properties of the request in detail *)

C24_VerdictPrecedence ==
    (requests > 0 /\ ~response.exc)
       => LET title == TitleText(response.title)
              lower == Lower(title)
              heavy == HasSub(response.url, <<"r", "e", "d", "d", "i", "t", ".", "c", "o", "m",
                  "/", "s", "t", "a", "t", "i", "c", "/", "h", "e", "a", "v", "y", "-", "l",
                      "o", "a", "d">>)
              challenge ==
                 \E m \in {<<"c", "a", "p", "t", "c", "h", "a">>, <<"v", "e", "r", "i", "f",
                     "y">>, <<"l", "o", "g", " ", "i", "n">>, <<"s", "i", "g", "n", " ", "i",
                         "n">>, <<"h", "u", "m", "a", "n", "?">>} :
                    HasSub(lower, m)
              foreign ==
                 /\ ~HasSub(lower, <<"r", "e", "d", "d", "i", "t">>)
                 /\ ~HasSub(title, <<" ", ":", " ">>)
                 /\ \A i \in DOMAIN config.subreddits :
                       ~HasSub(lower, Lower(config.subreddits[i]))
          IN  /\ outcome = IF response.status # 200 THEN "http_error"
                           ELSE IF heavy THEN "heavy_load"
                           ELSE IF challenge THEN "captcha_login"
                           ELSE IF foreign THEN "wrong_domain"
                           ELSE "success"
              /\ (result.kind = "soup") => (outcome = "success")
              /\ (response.status = 200 /\ ~heavy
                    /\ response.title = Attr(<<"L", "o", "g", " ", "i", "n", " ", "t", "o",
                        " ", "R", "e", "d", "d", "i", "t">>))
                   => (outcome = "captcha_login" /\ result.kind # "soup")

\* a 200 page titled "Log in to Reddit" has been classified
C24_Witness ==
    /\ requests > 0
    /\ response = Response(FALSE, 200, ListingUrl, Attr(<<"L", "o", "g", " ", "i", "n", " ",
        "t", "o", " ", "R", "e", "d", "d", "i", "t">>))
    /\ outcome = "captcha_login"
    /\ result.kind # "soup"

-----------------------------------------------------------------------------
(* Properties of the choice of the listing strategy *)

\* what each strategy yields for the page
LegacyYield == ParseOldReddit(page, config)

ModernYield == NewLoop(<<>>, PostElements(page), config)

GenericYield == LinkLoop([seen |-> {}, threads |-> <<>>], AllLinks(page), config)

\* C25 as stated: the records are those of the first of legacy layout,
\* modern layout, generic post-link scan that yields any, whatever the
\* configuration says.
C25_FirstNonEmptyStrategy ==
    (stage = "parsed")
       => records = IF LegacyYield # <<>> THEN LegacyYield
                    ELSE IF ModernYield # <<>> THEN ModernYield
                    ELSE GenericYield

\* the elements the configured parser works on: the things of the legacy
\* layout; or the elements of the first of the four searches of the modern
\* parser that finds any, and with none the elements with a post link
UsedCandidates ==
    IF useOld THEN OldPosts(page)
    ELSE IF ById(page) # <<>> THEN ById(page)
    ELSE IF ByClass(page) # <<>> THEN ByClass(page)
    ELSE IF ByArticle(page) # <<>> THEN ByArticle(page)
    ELSE IF ByShreddit(page) # <<>> THEN ByShreddit(page)
    ELSE SelectSeq(page, LAMBDA e : e.link.present /\ IsCommentsHref(e.link.href))

\* the record r was made from the link of the element e
MadeFrom(r, e) ==
    /\ e.link.present
    /\ e.link.href.has
    /\ r.permalink \in { e.link.href.val, Origin \o e.link.href.val,
                         Origin \o <<"/">> \o e.link.href.val,
                         UrlJoin(e.link.href.val) }

\* C25: one parser is applied, the legacy one when use_old_reddit is set and
\* the modern one otherwise; the modern parser takes the elements of the
\* first of its searches that finds any and scans the links only when none
\* does; every record is made from an element of that one candidate set, at
\* most one per element, and when the candidate set of the configured
\* parser is empty or yields nothing, no other strategy supplies records.
C25_ConfiguredStrategyOnly ==
    (stage = "parsed")
       => /\ \A k \in 1..Len(records) :
                \E i \in 1..Len(UsedCandidates) : MadeFrom(records[k], UsedCandidates[i])
          /\ Len(records) <= Len(UsedCandidates)
          /\ (useOld /\ OldPosts(page) = <<>>) => records = <<>>

\* the legacy parser found nothing on a page where the modern strategy
\* yields a record, and nothing is returned
C25_Witness ==
    /\ stage = "parsed"
    /\ useOld
    /\ LegacyYield = <<>>
    /\ ModernYield # <<>>
    /\ records = <<>>

\* C26: every record a parser emits, legacy or modern, has a non-empty id.
C26_IdNeverEmpty ==
    (stage = "parsed") => \A k \in 1..Len(records) : records[k].id # <<>>

-----------------------------------------------------------------------------
(* Properties of the conversion of a thread into a script *)

\* C29: the script_text that convert_thread_to_script produces has at most
\* max_script_length characters, for every thread and every configuration:
\* also when main content and conclusion are both truncated, and when hook,
\* pattern interrupt and call to action alone are longer than the limit.
C29_ScriptWithinMaxLength ==
    script.made => script.character_count <= shortsConfig.max_script_length

\* C30: the virality score of every generated script is in 0..20, the range
\* on which it is reported ('/20'), for every Reddit score, comment count
\* and script text.
C30_ViralityInRange ==
    script.made => 0 <= script.virality_score /\ script.virality_score <= 2000

=============================================================================
